---- MODULE Spec2Model ----
(***************************************************************************)
(* Ark: the JSON-to-graph compiler (src/src/parser.ts) and the tree-walking *)
(* evaluator (src/src/interpreter.ts), as a small-step state machine.       *)
(*                                                                          *)
(* The evaluator is recursive in the source; here the host call stack is    *)
(* the explicit continuation `kont`, and every eval method is split at its  *)
(* recursive calls: one action for the part before a sub-evaluation, one    *)
(* for the part after it returns, and the unwinding actions for a thrown    *)
(* exception.  Objects with identity that the code mutates (ArkValRef       *)
(* cells, ArkList objects) live in `heap` and are denoted by their index.   *)
(* Indices into locals, captures and frames are 0-based as in the source.   *)
(***************************************************************************)
EXTENDS Integers, Sequences, FiniteSets, TLC

VARIABLES
  json,       \* the decoded JSON document given to compile
  env,        \* the Environment given to compile
  pc,         \* "init", "compiled", "compile_error", "running", "done", "failed"
  compiled,   \* the CompiledArk record returned by compile (and the heap it left)
  ctl,        \* what the evaluator is doing: eval an expression, return a value, throw
  kont,       \* the host call stack: the eval methods waiting for a sub-evaluation
  mark,       \* history: mark[i] is the runtime stack when kont[i] was entered
  stack,      \* ArkState.stack.stack: the runtime stack, frame 0 first
  heap,       \* contents of the ArkValRef cells and ArkList objects, by identity
  nextFid,    \* identity of the next frame array to be created
  callStack,  \* ArkState.debug 'callStack'
  fnSymStack, \* ArkState.debug 'fnSymStack'
  out,        \* what print has written to the console
  intern,     \* ConcreteInterned.intern: raw value -> instance the WeakRef targets
  inst,       \* every ArkConcreteVal instance created: its raw value and GC status
  finq,       \* finalization callbacks registered and due, not yet run
  wire        \* what serializeVal gave for the compiled value, and its compilation

vars == <<json, env, pc, compiled, ctl, kont, mark, stack, heap, nextFid,
          callStack, fnSymStack, out, intern, inst, finq, wire>>

evalVars == <<json, env, pc, compiled, ctl, kont, mark, stack, heap, nextFid,
              callStack, fnSymStack, out>>
internVars == <<intern, inst, finq>>

----------------------------------------------------------------------------
(* Bounds of the model. *)

MaxNest == 3      \* nesting depth of the generated context programs
MaxHeap == 13     \* cells and list objects in the heap
MaxFrames == 5    \* frames on the runtime stack, entries on the debug stacks
MaxFid == 6       \* frame arrays created during one run
MaxOut == 5       \* lines written by print
MaxInst == 4      \* ArkConcreteVal instances created in the interning model
MaxList == 4       \* elements of a list after a set
MaxForm == 5      \* elements of a malformed form

----------------------------------------------------------------------------
(* Sequence helpers in the shape of the JavaScript array methods used. *)

Last(s) == s[Len(s)]
Front(s) == SubSeq(s, 1, Len(s) - 1)
Range(s) == {s[i] : i \in 1..Len(s)}

\* Array.prototype.lastIndexOf: 0-based, -1 when absent.
lastIndexOf(s, x) ==
  LET hits == {i \in 1..Len(s) : s[i] = x}
  IN IF hits = {} THEN -1 ELSE (CHOOSE i \in hits : \A k \in hits : k <= i) - 1

\* new Set(params).size !== params.length
HasDuplicates(s) == \E i, k \in 1..Len(s) : i # k /\ s[i] = s[k]

----------------------------------------------------------------------------
(* Decoded JSON. *)

JNull == [j |-> "null"]
JBool(b) == [j |-> "boolean", b |-> b]
JNum(n) == [j |-> "number", n |-> n]
JStr(s) == [j |-> "string", s |-> s]
JArr(a) == [j |-> "array", a |-> a]
\* undefined among host values: JSON.stringify writes it as null inside an
\* array.
JUndefined == [j |-> "undefined"]

IsJStr(v) == v.j = "string"
IsTag(v, tag) == v.j = "string" /\ v.s = tag

----------------------------------------------------------------------------
(* Values and expression nodes. *)

ArkUndefined == [t |-> "Undefined"]
\* The host's undefined (an array slot that does not exist), which is not
\* ArkUndefined.
JsUndefined == [t |-> "undefined"]
ArkNull == [t |-> "Null"]
ArkBoolean(b) == [t |-> "Bool", b |-> b]
ArkNumber(n) == [t |-> "Num", n |-> n]
ArkString(s) == [t |-> "Str", s |-> s]
\* ArkNumber of a host result that is not an integer of the model:
\* NaN, or the string that + builds from an object operand.
ArkNaN == [t |-> "NaN"]
ArkHostString == [t |-> "HostStr"]
\* Math.PI and Math.E: numbers the model keeps opaque.
ArkReal(name) == [t |-> "Real", name |-> name]

NativeFn(name) == [t |-> "NativeFn", name |-> name]
ArkValRef(id) == [t |-> "ValRef", id |-> id]
ArkStackRef(level, index, name) ==
  [t |-> "StackRef", level |-> level, index |-> index, name |-> name]
ArkCaptureRef(index) == [t |-> "CaptureRef", index |-> index]
ArkList(id) == [t |-> "List", id |-> id]
ArkMap(id) == [t |-> "Map", id |-> id]
ArkClosure(params, freeVars, body) ==
  [t |-> "Closure", params |-> params, freeVars |-> freeVars, body |-> body]

ArkFn(params, boundFreeVars, body) ==
  [t |-> "Fn", params |-> params, boundFreeVars |-> boundFreeVars, body |-> body]
ArkCall(fn, args) == [t |-> "Call", fn |-> fn, args |-> args]
ArkGet(val) == [t |-> "Get", val |-> val]
ArkSet(ref, val) == [t |-> "Set", ref |-> ref, val |-> val]
ArkLet(boundVars, body) == [t |-> "Let", boundVars |-> boundVars, body |-> body]
ArkSequence(exps) == [t |-> "Sequence", exps |-> exps]
\* elseExp is undefined when the form has no else.
ArkIf(cond, thenExp, elseExp) ==
  [t |-> "If", cond |-> cond, thenExp |-> thenExp, elseExp |-> elseExp]
ArkAnd(left, right) == [t |-> "And", left |-> left, right |-> right]
ArkOr(left, right) == [t |-> "Or", left |-> left, right |-> right]
ArkLoop(body) == [t |-> "Loop", body |-> body]

\* instanceof ArkRef
ArkPropertyRef(obj, prop) == [t |-> "PropertyRef", obj |-> obj, prop |-> prop]
IsRef(v) == v.t \in {"ValRef", "StackRef", "CaptureRef", "PropertyRef"}
IsConcrete(v) == v.t \in {"Null", "Bool", "Num", "Str", "NaN", "HostStr", "Real"}

\* The names of the intrinsics namespace.
IntrinsicNames ==
  {"pos", "neg", "not", "~", "break", "continue", "return", "=", "!=", "<",
   "<=", ">", ">=", "+", "-", "*", "/", "%", "**", "&", "|", "^", "<<", ">>",
   ">>>"}

\* intrinsics.get(name)
intrinsics(name) == NativeFn(name)

\* The cells of the globals map, in the heap from the start.
GlobalCells ==
  <<ArkReal("pi"), ArkReal("e"), NativeFn("print"), NativeFn("debug")>>

\* globals: name -> its ArkValRef.
globals ==
  [pi |-> ArkValRef(1), e |-> ArkValRef(2), print |-> ArkValRef(3),
   debug |-> ArkValRef(4)]

\* A namespace that a caller of compile supplies instead of globals: its own
\* cell for host, the cell of globals for print, and no pi.
HostCells == <<ArkNumber(7)>>
hostSyms == [host |-> ArkValRef(Len(GlobalCells) + 1), print |-> ArkValRef(3)]

\* A namespace of a caller that has names of intrinsics.
operatorSyms ==
  ("+" :> ArkValRef(Len(GlobalCells) + 1)) @@ ("not" :> ArkValRef(3)) @@ hostSyms

\* The cells that exist when compile is called with this namespace.
NamespaceCells(externalSyms) ==
  IF externalSyms = globals THEN GlobalCells ELSE GlobalCells \o HostCells

ArkObjectLiteral(val) == [t |-> "ObjectLiteral", val |-> val]
ArkListLiteral(list) == [t |-> "ListLiteral", list |-> list]
\* map is the Map of the node: its entries in insertion order.
ArkMapLiteral(map) == [t |-> "MapLiteral", map |-> map]
ArkProperty(prop, obj) == [t |-> "Property", prop |-> prop, obj |-> obj]

\* Two compiled nodes are one object: interned values, the intrinsics and the
\* global references are shared, every other node is created where it is used.
SameObject(a, b) == a = b /\ (IsConcrete(a) \/ a.t \in {"NativeFn", "ValRef"})

----------------------------------------------------------------------------
(* FreeVars: a Map from name to the ArkStackRefs made for it, in insertion  *)
(* order.                                                                  *)

FVNames(fv) == [i \in 1..Len(fv) |-> fv[i].name]
FVHas(fv, name) == \E i \in 1..Len(fv) : fv[i].name = name

\* freeVars.delete of a name that keeps the entry
FVDeleteKept(fv, name) == fv

\* Map.prototype.delete
FVDelete(fv, name) == SelectSeq(fv, LAMBDA entry : entry.name # name)

RECURSIVE FVDeleteAll(_, _)
FVDeleteAll(fv, names) ==
  IF names = <<>> THEN fv ELSE FVDeleteAll(FVDelete(fv, Head(names)), Tail(names))

\* One round of the loop of FreeVars.merge.
FVMergeOne(fv, entry) ==
  LET withName == IF FVHas(fv, entry.name) THEN fv
                  ELSE Append(fv, [name |-> entry.name, refs |-> <<>>])
  IN [i \in 1..Len(withName) |->
        IF withName[i].name = entry.name
        THEN [withName[i] EXCEPT !.refs = @ \o entry.refs]
        ELSE withName[i]]

RECURSIVE FVMerge(_, _)
FVMerge(fv, moreVars) ==
  IF moreVars = <<>> THEN fv
  ELSE FVMerge(FVMergeOne(fv, Head(moreVars)), Tail(moreVars))

\* [...freeVars.values()].flat()
RECURSIVE FVFlat(_)
FVFlat(fv) == IF fv = <<>> THEN <<>> ELSE Head(fv).refs \o FVFlat(Tail(fv))

----------------------------------------------------------------------------
(* Environment.  env.stack is kept as the locals of each frame; the captures *)
(* of frame 0, the one array of names that symRef mutates in place and that  *)
(* push shares with the environment it extends, is threaded through the     *)
(* compiler as st.caps, next to the heap of the cells created so far.       *)

Environment(locals) == [stack |-> locals, externalSyms |-> globals]

\* Environment.push: a new Environment (with the default externalSyms) whose
\* frame 0 has the items appended and shares frame 0's captures array.
EnvPush(e, items) ==
  [stack |-> <<e.stack[1] \o items>> \o Tail(e.stack), externalSyms |-> globals]

\* Environment.pushFrame([params, []])
EnvPushFrame(e, locals) ==
  [stack |-> <<locals>> \o e.stack, externalSyms |-> globals]

CompilerError(msg) == [t |-> "CompilerError", msg |-> msg]

\* Environment.getIndex; a CompilerError record stands for the throw.
getIndex(e, sym) ==
  LET found == {i \in 1..Len(e.stack) : lastIndexOf(e.stack[i], sym) # -1}
  IN IF found # {}
     THEN LET i == CHOOSE i \in found : \A k \in found : i <= k
          IN ArkStackRef(i - 1, lastIndexOf(e.stack[i], sym), sym)
     ELSE IF sym \in DOMAIN e.externalSyms
          THEN e.externalSyms[sym]
          ELSE CompilerError("Undefined symbol " \o sym)

\* What doCompile leaves: a CompiledArk, or the exception it threw, and the
\* captures array and heap as they are afterwards.
Ok(value, freeVars, st) ==
  [err |-> "", msg |-> "", value |-> value, freeVars |-> freeVars,
   caps |-> st.caps, heap |-> st.heap]
Fail(kind, msg, st) ==
  [err |-> kind, msg |-> msg, value |-> JsUndefined, freeVars |-> <<>>,
   caps |-> st.caps, heap |-> st.heap]
St(r) == [caps |-> r.caps, heap |-> r.heap]

\* symRef with the intrinsics looked up last: a binding in scope or a name of
\* the namespace comes first.
symRefBindingFirst(e, st, name) ==
  LET ref == getIndex(e, name) IN
  IF ref.t = "CompilerError"
  THEN IF name \in IntrinsicNames THEN Ok(intrinsics(name), <<>>, st)
       ELSE Fail("CompilerError", ref.msg, st)
  ELSE
    LET freeVars == IF ref.t = "StackRef"
                    THEN <<[name |-> name, refs |-> <<ref>>]>> ELSE <<>>
        i == lastIndexOf(st.caps, name)
        ref1 == IF i # -1 THEN ArkCaptureRef(i) ELSE ref
        outer == ref1.t = "StackRef" /\ ref1.level > 0
        k == Len(st.caps)
    IN Ok(IF outer THEN ArkCaptureRef(k) ELSE ref1, freeVars,
          [st EXCEPT !.caps = IF outer THEN Append(@, name) ELSE @])

\* symRef without the lookup in the captures array: every reference to an
\* outer name makes a new entry.
symRefAlwaysCapturing(e, st, name) ==
  IF name \in IntrinsicNames THEN Ok(intrinsics(name), <<>>, st)
  ELSE
    LET ref == getIndex(e, name) IN
    IF ref.t = "CompilerError" THEN Fail("CompilerError", ref.msg, st)
    ELSE
      LET freeVars == IF ref.t = "StackRef"
                      THEN <<[name |-> name, refs |-> <<ref>>]>> ELSE <<>>
          outer == ref.t = "StackRef" /\ ref.level > 0
          k == Len(st.caps)
      IN Ok(IF outer THEN ArkCaptureRef(k) ELSE ref, freeVars,
            [st EXCEPT !.caps = IF outer THEN Append(@, name) ELSE @])

symRef(e, st, name) ==
  IF name \in IntrinsicNames THEN Ok(intrinsics(name), <<>>, st)
  ELSE
    LET ref == getIndex(e, name) IN
    IF ref.t = "CompilerError" THEN Fail("CompilerError", ref.msg, st)
    ELSE
      LET freeVars == IF ref.t = "StackRef"
                      THEN <<[name |-> name, refs |-> <<ref>>]>> ELSE <<>>
          i == lastIndexOf(st.caps, name)
          ref1 == IF i # -1 THEN ArkCaptureRef(i) ELSE ref
          outer == ref1.t = "StackRef" /\ ref1.level > 0
          k == Len(st.caps)
      IN Ok(IF outer THEN ArkCaptureRef(k) ELSE ref1, freeVars,
            [st EXCEPT !.caps = IF outer THEN Append(@, name) ELSE @])

\* checkParamList
checkParamList(params) == ~HasDuplicates(params)

\* arkParamList: "" when the list is accepted, else the exception thrown.
arkParamListError(params) ==
  IF params.j = "null" THEN "TypeError"
  ELSE IF params.j # "array" THEN "Invalid parameter list"
  ELSE IF Len(params.a) = 0 \/ ~IsTag(params.a[1], "params")
       THEN "Invalid parameter list"
  ELSE IF \E i \in 2..Len(params.a) : ~IsJStr(params.a[i]) THEN "Bad type in list"
  ELSE IF ~checkParamList([i \in 1..(Len(params.a) - 1) |-> params.a[i + 1].s])
       THEN "Duplicate parameters in list"
  ELSE ""

arkParamList(params) == [i \in 1..(Len(params.a) - 1) |-> params.a[i + 1].s]

----------------------------------------------------------------------------
(* doCompile.  st is [caps, heap]: frame 0's captures array and the heap.   *)

RECURSIVE doCompile(_, _, _)
RECURSIVE compileForm(_, _, _)
RECURSIVE listToVals(_, _, _)
RECURSIVE compilePairs(_, _, _)

ListAcc(st) ==
  [err |-> "", msg |-> "", vals |-> <<>>, freeVars |-> <<>>,
   caps |-> st.caps, heap |-> st.heap]

\* listToVals, as a fold from the left: acc is what the loop has built.
listToVals(e, l, acc) ==
  IF l = <<>> \/ acc.err # "" THEN acc
  ELSE
    LET c == doCompile(Head(l), e, St(acc)) IN
    IF c.err # ""
    THEN [acc EXCEPT !.err = c.err, !.msg = c.msg, !.caps = c.caps, !.heap = c.heap]
    ELSE listToVals(e, Tail(l),
           [err |-> "", msg |-> "", vals |-> Append(acc.vals, c.value),
            freeVars |-> FVMerge(acc.freeVars, c.freeVars),
            caps |-> c.caps, heap |-> c.heap])

\* Map.prototype.set on the inits of a map form: keys are compared as objects.
MapSet(map, key, val) ==
  IF \E i \in 1..Len(map) : SameObject(map[i].key, key)
  THEN [i \in 1..Len(map) |->
          IF SameObject(map[i].key, key) THEN [map[i] EXCEPT !.val = val] ELSE map[i]]
  ELSE Append(map, [key |-> key, val |-> val])

\* The loop of the 'map' case; acc.vals holds the Map built so far.
compilePairs(e, l, acc) ==
  IF l = <<>> \/ acc.err # "" THEN acc
  ELSE
    LET pair == Head(l) IN
    IF ~(pair.j = "array" /\ Len(pair.a) = 2)
    THEN [acc EXCEPT !.err = "AssertionError"]
    ELSE
      LET ck == doCompile(pair.a[1], e, St(acc)) IN
      IF ck.err # ""
      THEN [acc EXCEPT !.err = ck.err, !.msg = ck.msg, !.caps = ck.caps, !.heap = ck.heap]
      ELSE
        LET cv == doCompile(pair.a[2], e, St(ck)) IN
        IF cv.err # ""
        THEN [acc EXCEPT !.err = cv.err, !.msg = cv.msg, !.caps = cv.caps, !.heap = cv.heap]
        ELSE compilePairs(e, Tail(l),
               [err |-> "", msg |-> "", vals |-> MapSet(acc.vals, ck.value, cv.value),
                freeVars |-> FVMerge(FVMerge(acc.freeVars, ck.freeVars), cv.freeVars),
                caps |-> cv.caps, heap |-> cv.heap])

\* The cases 'and', 'or' and 'set' compile value[1], then value[2]; 'set'
\* merges the free variables of the second operand first.
compileTwo(a, e, st) ==
  LET c1 == doCompile(a[2], e, st) IN
  IF c1.err # "" THEN [c1 |-> c1, c2 |-> c1, err |-> TRUE]
  ELSE LET c2 == doCompile(a[3], e, St(c1)) IN
       [c1 |-> c1, c2 |-> c2, err |-> c2.err # ""]

\* The switch of doCompile on a non-empty array.
compileForm(a, e, st) ==
  LET n == Len(a)
      tag == a[1]
  IN
  IF IsTag(tag, "str") THEN
    IF n # 2 \/ ~IsJStr(a[2]) THEN Fail("CompilerError", "Invalid 'str'", st)
    ELSE Ok(ArkString(a[2].s), <<>>, st)
  ELSE IF IsTag(tag, "let") THEN
    IF n # 3 THEN Fail("CompilerError", "Invalid 'let'", st)
    ELSE IF arkParamListError(a[2]) = "TypeError" THEN Fail("TypeError", "", st)
    ELSE IF arkParamListError(a[2]) # ""
      THEN Fail("CompilerError", arkParamListError(a[2]), st)
    ELSE
      LET params == arkParamList(a[2])
          c == doCompile(a[3], EnvPush(e, params), st)
      IN IF c.err # "" THEN c
         ELSE Ok(ArkLet(params, c.value), FVDeleteAll(c.freeVars, params), St(c))
  ELSE IF IsTag(tag, "fn") THEN
    IF n # 3 THEN Fail("CompilerError", "Invalid 'fn'", st)
    ELSE IF arkParamListError(a[2]) = "TypeError" THEN Fail("TypeError", "", st)
    ELSE IF arkParamListError(a[2]) # ""
      THEN Fail("CompilerError", arkParamListError(a[2]), st)
    ELSE
      LET params == arkParamList(a[2])
          c == doCompile(a[3], EnvPushFrame(e, params), [st EXCEPT !.caps = <<>>])
          outer == [caps |-> st.caps, heap |-> c.heap]
          freeVars == FVDeleteAll(c.freeVars, params)
      IN IF c.err # "" THEN Fail(c.err, c.msg, outer)
         ELSE Ok(ArkFn(params, FVFlat(freeVars), c.value), freeVars, outer)
  ELSE IF IsTag(tag, "prop") THEN
    IF n # 3 THEN Fail("CompilerError", "Invalid 'prop'", st)
    ELSE LET c == doCompile(a[3], e, st)
         IN IF c.err # "" THEN c
            ELSE Ok(ArkProperty(a[2], c.value), c.freeVars, St(c))
  ELSE IF IsTag(tag, "ref") THEN
    IF n # 2 THEN Fail("CompilerError", "Invalid 'ref'", st)
    ELSE LET c == doCompile(a[2], e, st)
         IN IF c.err # "" THEN c
            ELSE Ok(ArkValRef(Len(c.heap) + 1), c.freeVars,
                    [caps |-> c.caps, heap |-> Append(c.heap, c.value)])
  ELSE IF IsTag(tag, "get") THEN
    IF n # 2 THEN Fail("CompilerError", "Invalid 'get'", st)
    ELSE LET c == doCompile(a[2], e, st)
         IN IF c.err # "" THEN c ELSE Ok(ArkGet(c.value), c.freeVars, St(c))
  ELSE IF IsTag(tag, "set") THEN
    IF n # 3 THEN Fail("CompilerError", "Invalid 'set'", st)
    ELSE LET r == compileTwo(a, e, st)
         IN IF r.err THEN (IF r.c1.err # "" THEN r.c1 ELSE r.c2)
            ELSE Ok(ArkSet(r.c1.value, r.c2.value),
                    FVMerge(r.c2.freeVars, r.c1.freeVars), St(r.c2))
  ELSE IF IsTag(tag, "list") THEN
    LET l == listToVals(e, SubSeq(a, 2, n), ListAcc(st))
    IN IF l.err # "" THEN Fail(l.err, l.msg, St(l))
       ELSE Ok(ArkListLiteral(l.vals), l.freeVars, St(l))
  ELSE IF IsTag(tag, "map") THEN
    LET m == compilePairs(e, SubSeq(a, 2, n), ListAcc(st))
    IN IF m.err # "" THEN Fail(m.err, m.msg, St(m))
       ELSE Ok(ArkMapLiteral(m.vals), m.freeVars, St(m))
  ELSE IF IsTag(tag, "seq") THEN
    IF n = 2 THEN doCompile(a[2], e, st)
    ELSE LET l == listToVals(e, SubSeq(a, 2, n), ListAcc(st))
         IN IF l.err # "" THEN Fail(l.err, l.msg, St(l))
            ELSE Ok(ArkSequence(l.vals), l.freeVars, St(l))
  ELSE IF IsTag(tag, "if") THEN
    IF n < 3 \/ n > 4 THEN Fail("CompilerError", "Invalid 'if'", st)
    ELSE
      LET r == compileTwo(a, e, st) IN
      IF r.err THEN (IF r.c1.err # "" THEN r.c1 ELSE r.c2)
      ELSE IF n = 3
        THEN Ok(ArkIf(r.c1.value, r.c2.value, JsUndefined),
                FVMerge(r.c1.freeVars, r.c2.freeVars), St(r.c2))
        ELSE LET c3 == doCompile(a[4], e, St(r.c2))
             IN IF c3.err # "" THEN c3
                ELSE Ok(ArkIf(r.c1.value, r.c2.value, c3.value),
                        FVMerge(FVMerge(r.c1.freeVars, r.c2.freeVars), c3.freeVars),
                        St(c3))
  ELSE IF IsTag(tag, "and") \/ IsTag(tag, "or") THEN
    IF n # 3
    THEN Fail("CompilerError",
              IF IsTag(tag, "and") THEN "Invalid 'and'" ELSE "Invalid 'or'", st)
    ELSE LET r == compileTwo(a, e, st)
         IN IF r.err THEN (IF r.c1.err # "" THEN r.c1 ELSE r.c2)
            ELSE Ok(IF IsTag(tag, "and") THEN ArkAnd(r.c1.value, r.c2.value)
                    ELSE ArkOr(r.c1.value, r.c2.value),
                    FVMerge(r.c1.freeVars, r.c2.freeVars), St(r.c2))
  ELSE IF IsTag(tag, "loop") THEN
    IF n # 2 THEN Fail("CompilerError", "Invalid 'loop'", st)
    ELSE LET c == doCompile(a[2], e, st)
         IN IF c.err # "" THEN c ELSE Ok(ArkLoop(c.value), c.freeVars, St(c))
  ELSE
    LET cf == doCompile(a[1], e, st) IN
    IF cf.err # "" THEN cf
    ELSE LET l == listToVals(e, SubSeq(a, 2, n), ListAcc(St(cf)))
         IN IF l.err # "" THEN Fail(l.err, l.msg, St(l))
            ELSE Ok(ArkCall(cf.value, l.vals), FVMerge(l.freeVars, cf.freeVars), St(l))

doCompile(value, e, st) ==
  IF value.j = "null" THEN Ok(ArkNull, <<>>, st)
  ELSE IF value.j = "boolean" THEN Ok(ArkBoolean(value.b), <<>>, st)
  ELSE IF value.j = "number" THEN Ok(ArkNumber(value.n), <<>>, st)
  ELSE IF value.j = "string" THEN symRef(e, st, value.s)
  ELSE IF Len(value.a) > 0 THEN compileForm(value.a, e, st)
  ELSE Ok(ArkObjectLiteral(<<>>), <<>>, st)

RECURSIVE FVDeleteSet(_, _)
FVDeleteSet(fv, names) ==
  IF fv = <<>> THEN <<>>
  ELSE (IF Head(fv).name \in names THEN <<>> ELSE <<Head(fv)>>)
       \o FVDeleteSet(Tail(fv), names)

\* compile: doCompile on the parsed document, then every external symbol is
\* deleted from the free variables.
compile(expr, e) ==
  LET c == doCompile(expr, e,
                     [caps |-> <<>>, heap |-> NamespaceCells(e.externalSyms)])
  IN [c EXCEPT !.freeVars = FVDeleteSet(@, DOMAIN e.externalSyms)]

----------------------------------------------------------------------------
(* The runtime stack, references and the host conversions.                 *)

\* A frame: the pair [locals, captures]; fid is the identity of the array.
Frame(locals, captures, fid) == [locals |-> locals, captures |-> captures, fid |-> fid]

\* new RuntimeStack()
InitialStack == <<Frame(<<>>, <<>>, 0)>>

\* Stands for a TypeError of the host (a property of undefined is read, or a
\* method that the object does not have is called).
HostTypeError == [t |-> "TypeError"]

Eval(e) == [m |-> "eval", e |-> e]
Ret(v) == [m |-> "ret", v |-> v]
\* A thrown exception, with the history of its way out so far: the frames of
\* the closure bodies it has left (via) and, for each Let it has left, the
\* frame that Let extended and the number of locals that frame had before.
Throw(x) == [m |-> "throw", x |-> x, via |-> <<>>, lets |-> <<>>]
Idle == [m |-> "idle"]
ArgsLoop == [m |-> "args"]

ArkRuntimeError(message, names) ==
  [x |-> "ArkRuntimeError", message |-> message, names |-> names]
ArkBreakException(val) == [x |-> "ArkBreakException", val |-> val]
ArkContinueException == [x |-> "ArkContinueException", val |-> ArkNull]
ArkReturnException(val) == [x |-> "ArkReturnException", val |-> val]
TypeError == [x |-> "TypeError"]

\* x ?? y
Coalesce(x, y) == IF x = JsUndefined THEN y ELSE x

\* array[i] of the host: undefined outside the array.
At(s, i) == IF 0 <= i /\ i < Len(s) THEN s[i + 1] ELSE JsUndefined

\* array[i] = v of the host: the array grows, with holes, when i is beyond it.
AtPut(s, i, v) ==
  [k \in 1..(IF i + 1 > Len(s) THEN i + 1 ELSE Len(s)) |->
     IF k = i + 1 THEN v ELSE IF k <= Len(s) THEN s[k] ELSE JsUndefined]

\* A NativeFn that the constructor of an ArkList made: it is closed over the
\* list, self is the place of the list in the heap.
Method(name, self) == [t |-> "NativeFn", name |-> name, self |-> self]

\* Map.prototype.get on the val of an ArkClass: the entries are [key, val],
\* a key is the value of the document that the prop form has for a name, and
\* the methods that the constructor put there are held by name.
ClassGet(id, prop, hp) ==
  LET entries == hp[id].val
      found == {i \in 1..Len(entries) : entries[i].key = prop}
  IN IF found = {} THEN JsUndefined
     ELSE LET v == entries[CHOOSE i \in found : TRUE].val
          IN IF v.t = "Method" THEN Method(v.name, id) ELSE v

\* Map.prototype.set on the val of an ArkClass.
ClassSet(id, prop, val, hp) ==
  LET entries == hp[id].val IN
  [hp EXCEPT ![id].val =
     IF \E i \in 1..Len(entries) : entries[i].key = prop
     THEN [i \in 1..Len(entries) |->
             IF entries[i].key = prop THEN [key |-> prop, val |-> val] ELSE entries[i]]
     ELSE Append(entries, [key |-> prop, val |-> val])]

\* ArkPropertyRef.get: this.obj.get(this.prop) ?? ArkNull(), for whatever
\* obj is: an ArkClass looks the property up, an ArkValRef takes the name for
\* the stack and gives what it holds, an ArkPropertyRef does its own get,
\* anything else has no get or fails in it.
RECURSIVE PropertyGet(_, _, _)
PropertyGet(obj, prop, hp) ==
  IF obj.t \in {"List", "Map"} THEN Coalesce(ClassGet(obj.id, prop, hp), ArkNull)
  ELSE IF obj.t = "ValRef" THEN Coalesce(hp[obj.id], ArkNull)
  ELSE IF obj.t = "PropertyRef"
    THEN Coalesce(PropertyGet(obj.obj, obj.prop, hp), ArkNull)
  ELSE HostTypeError

\* ArkPropertyRef.set: this.obj.set(this.prop, val); ok is FALSE for a
\* TypeError.
RECURSIVE PropertySet(_, _, _, _)
PropertySet(obj, prop, val, hp) ==
  IF obj.t \in {"List", "Map"} THEN [ok |-> TRUE, heap |-> ClassSet(obj.id, prop, val, hp)]
  ELSE IF obj.t = "ValRef" THEN [ok |-> TRUE, heap |-> [hp EXCEPT ![obj.id] = val]]
  ELSE IF obj.t = "PropertyRef" THEN PropertySet(obj.obj, obj.prop, val, hp)
  ELSE [ok |-> FALSE, heap |-> hp]

\* ArkValRef.get / ArkStackRef.get / ArkCaptureRef.get / ArkPropertyRef.get
RefGet(ref, stk, hp) ==
  IF ref.t = "PropertyRef" THEN PropertyGet(ref.obj, ref.prop, hp)
  ELSE IF ref.t = "ValRef" THEN hp[ref.id]
  ELSE IF ref.t = "StackRef" THEN
    IF ref.level < Len(stk) THEN At(stk[ref.level + 1].locals, ref.index)
    ELSE HostTypeError
  ELSE
    IF stk = <<>> THEN HostTypeError
    ELSE IF At(stk[1].captures, ref.index) = JsUndefined THEN HostTypeError
    ELSE hp[At(stk[1].captures, ref.index).id]

\* ArkValRef.set / ArkStackRef.set / ArkCaptureRef.set: the stack and heap
\* afterwards; ok is FALSE for a TypeError.
RefSet(ref, stk, hp, val) ==
  IF ref.t = "PropertyRef"
  THEN [ok |-> PropertySet(ref.obj, ref.prop, val, hp).ok, stack |-> stk,
        heap |-> PropertySet(ref.obj, ref.prop, val, hp).heap]
  ELSE IF ref.t = "ValRef"
  THEN [ok |-> TRUE, stack |-> stk, heap |-> [hp EXCEPT ![ref.id] = val]]
  ELSE IF ref.t = "StackRef" THEN
    IF ref.level < Len(stk)
    THEN [ok |-> TRUE, heap |-> hp,
          stack |-> [stk EXCEPT ![ref.level + 1].locals = AtPut(@, ref.index, val)]]
    ELSE [ok |-> FALSE, stack |-> stk, heap |-> hp]
  ELSE
    IF stk = <<>> \/ At(stk[1].captures, ref.index) = JsUndefined
    THEN [ok |-> FALSE, stack |-> stk, heap |-> hp]
    ELSE [ok |-> TRUE, stack |-> stk,
          heap |-> [hp EXCEPT ![At(stk[1].captures, ref.index).id] = val]]

\* ref.get(ark.stack) in ArkGet.eval, for whatever the operand evaluated to:
\* a Ref is read, an ArkClass looks the stack up as a property name and finds
\* nothing, anything else has no get method.
GetOf(ref, stk, hp) ==
  IF IsRef(ref) THEN RefGet(ref, stk, hp)
  ELSE IF ref.t \in {"List", "Object", "Map"} THEN JsUndefined
  ELSE HostTypeError

\* Whether toJs(val) is truthy for the host.
Truthy(val) ==
  IF val.t = "Null" THEN FALSE
  ELSE IF val.t = "Bool" THEN val.b
  ELSE IF val.t = "Num" THEN val.n # 0
  ELSE IF val.t = "Str" THEN val.s # ""
  ELSE IF val.t \in {"NaN", "undefined"} THEN FALSE
  ELSE TRUE

\* The host's ToNumber on toJs(val), for the operands it maps to an integer.
IsNumeric(val) == val.t \in {"Null", "Bool", "Num"}
ToNumber(val) ==
  IF val.t = "Num" THEN val.n ELSE IF val.t = "Bool" /\ val.b THEN 1 ELSE 0

\* toJs(left) === toJs(right)
StrictEquals(left, right) ==
  IF left.t = "NaN" \/ right.t = "NaN" THEN FALSE ELSE left = right

\* The cells of bindArgsToParams made as new ArkValRef() makes them, with
\* ArkNull() for a parameter that has no argument.
ParamValuesNull(params, args) ==
  [i \in 1..Len(params) |-> Coalesce(At(args, i - 1), ArkNull)]

\* bindArgsToParams: the values of the new cells, in order (the extra
\* arguments, if any, become one ArkList held by a last cell).
ParamValues(params, args) ==
  [i \in 1..Len(params) |-> Coalesce(At(args, i - 1), ArkUndefined)]

\* What the constructor of ArkList makes: the list, and val with the two
\* methods and the length that the list has then.
ListData(list) ==
  [t |-> "ListData", list |-> list,
   val |-> <<[key |-> JStr("get"), val |-> [t |-> "Method", name |-> "List.get"]],
             [key |-> JStr("set"), val |-> [t |-> "Method", name |-> "List.set"]],
             [key |-> JStr("length"), val |-> ArkNumber(Len(list))]>>]

\* bindArgsToParams without the cell for the arguments that have no
\* parameter.
bindArgsToParamsNoRest(params, args, hp) ==
  [frame |-> [i \in 1..Len(params) |-> ArkValRef(Len(hp) + i)],
   heap |-> hp \o ParamValues(params, args)]

\* bindArgsToParams: [frame, heap], the locals of the new frame and the heap
\* with the cells (and the list of extra arguments) allocated.
bindArgsToParams(params, args, hp) ==
  LET n == Len(params)
      cells == hp \o ParamValues(params, args)
      base == Len(hp)
      frame == [i \in 1..n |-> ArkValRef(base + i)]
  IN IF Len(args) > n
     THEN [frame |-> Append(frame, ArkValRef(base + n + 2)),
           heap |-> cells \o <<ListData(SubSeq(args, n + 1, Len(args))),
                               ArkList(base + n + 1)>>]
     ELSE [frame |-> frame, heap |-> cells]

\* captureFreeVars that looks every address up in the bottom frame, not in
\* the frames of the evaluation.
RECURSIVE captureFreeVarsAtBottom(_, _, _)
captureFreeVarsAtBottom(boundFreeVars, stk, acc) ==
  IF boundFreeVars = <<>> \/ ~acc.ok THEN acc
  ELSE
    LET loc == Head(boundFreeVars) IN
    IF stk = <<>>
    THEN [acc EXCEPT !.ok = FALSE]
    ELSE captureFreeVarsAtBottom(Tail(boundFreeVars), stk,
           [ok |-> TRUE,
            frame |-> Append(acc.frame, ArkValRef(Len(acc.heap) + 1)),
            heap |-> Append(acc.heap,
                      Coalesce(At(stk[Len(stk)].locals, loc.index), ArkNull))])

\* ArkState.captureFreeVars: [ok, frame, heap]; ok is FALSE when a frame that
\* an address names does not exist (a TypeError).
RECURSIVE captureFreeVars(_, _, _)
captureFreeVars(boundFreeVars, stk, acc) ==
  IF boundFreeVars = <<>> \/ ~acc.ok THEN acc
  ELSE
    LET loc == Head(boundFreeVars) IN
    IF loc.level - 1 < 0 \/ loc.level - 1 >= Len(stk)
    THEN [acc EXCEPT !.ok = FALSE]
    ELSE captureFreeVars(Tail(boundFreeVars), stk,
           [ok |-> TRUE,
            frame |-> Append(acc.frame, ArkValRef(Len(acc.heap) + 1)),
            heap |-> Append(acc.heap,
                      Coalesce(At(stk[loc.level].locals, loc.index), ArkNull))])

\* RuntimeStack.pop(nItems)
StackPop(stk, nItems) ==
  IF nItems >= Len(stk) THEN <<>> ELSE SubSeq(stk, 1, Len(stk) - nItems)

\* The body of a NativeFn applied to evaluated arguments: what it returns or
\* throws, and what it writes to the console.
NativeResult(ctlAfter, written) == [ctl |-> ctlAfter, written |-> written]

NativeCompare(name, l, r) ==
  IF ~(IsNumeric(l) /\ IsNumeric(r)) THEN FALSE
  ELSE IF name = "<" THEN ToNumber(l) < ToNumber(r)
  ELSE IF name = "<=" THEN ToNumber(l) <= ToNumber(r)
  ELSE IF name = ">" THEN ToNumber(l) > ToNumber(r)
  ELSE ToNumber(l) >= ToNumber(r)

NativeArith(name, l, r) ==
  IF IsNumeric(l) /\ IsNumeric(r) THEN
    ArkNumber(IF name = "+" THEN ToNumber(l) + ToNumber(r)
              ELSE IF name = "-" THEN ToNumber(l) - ToNumber(r)
              ELSE ToNumber(l) * ToNumber(r))
  ELSE IF name = "+" /\ l.t # "undefined" /\ r.t # "undefined"
       /\ l.t # "NaN" /\ r.t # "NaN" /\ l.t # "Real" /\ r.t # "Real"
    THEN ArkHostString
  ELSE IF (l.t = "Real" \/ IsNumeric(l)) /\ (r.t = "Real" \/ IsNumeric(r))
    THEN ArkReal("host")
  ELSE ArkNaN

NativeApply(name, args) ==
  LET a1 == At(args, 0)
      a2 == At(args, 1)
  IN
  IF name = "break" THEN NativeResult(Throw(ArkBreakException(Coalesce(a1, ArkNull))), <<>>)
  ELSE IF name = "continue" THEN NativeResult(Throw(ArkContinueException), <<>>)
  ELSE IF name = "return"
    THEN NativeResult(Throw(ArkReturnException(Coalesce(a1, ArkNull))), <<>>)
  ELSE IF name \in {"print", "debug"} THEN NativeResult(Ret(ArkNull), <<a1>>)
  ELSE IF name = "not" THEN NativeResult(Ret(ArkBoolean(~Truthy(a1))), <<>>)
  ELSE IF name = "pos"
    THEN NativeResult(Ret(IF IsNumeric(a1) THEN ArkNumber(ToNumber(a1))
                          ELSE IF a1.t = "Real" THEN a1 ELSE ArkNaN), <<>>)
  ELSE IF name = "neg"
    THEN NativeResult(Ret(IF IsNumeric(a1) THEN ArkNumber(0 - ToNumber(a1))
                          ELSE IF a1.t = "Real" THEN ArkReal("host") ELSE ArkNaN), <<>>)
  ELSE IF name = "=" THEN NativeResult(Ret(ArkBoolean(StrictEquals(a1, a2))), <<>>)
  ELSE IF name = "!=" THEN NativeResult(Ret(ArkBoolean(~StrictEquals(a1, a2))), <<>>)
  ELSE IF name \in {"<", "<=", ">", ">="}
    THEN NativeResult(Ret(ArkBoolean(NativeCompare(name, a1, a2))), <<>>)
  ELSE IF name \in {"+", "-", "*"} THEN NativeResult(Ret(NativeArith(name, a1, a2)), <<>>)
  \* The other arithmetic and bitwise intrinsics: a host number that the
  \* model does not compute.
  ELSE NativeResult(Ret(ArkReal("host")), <<>>)

----------------------------------------------------------------------------
(* compile and ArkState.run.                                               *)

fixedVars == <<json, env, compiled>>

Compile ==
  /\ pc = "init"
  /\ compiled' = compile(json, env)
  /\ pc' = IF compiled'.err = "" THEN "compiled" ELSE "compile_error"
  /\ heap' = compiled'.heap
  /\ UNCHANGED <<json, env, ctl, kont, mark, stack, nextFid, callStack, fnSymStack, out>>
  /\ UNCHANGED <<internVars, wire>>

\* run without the check of the free-variable map
RunUnchecked ==
  /\ pc = "compiled"
  /\ pc' = "running"
  /\ ctl' = Eval(compiled.value)
  /\ UNCHANGED <<fixedVars, kont, mark, stack, heap, nextFid, callStack, fnSymStack, out>>
  /\ UNCHANGED <<internVars, wire>>

\* ArkState.run
Run ==
  /\ pc = "compiled"
  /\ IF Len(compiled.freeVars) # 0
     THEN /\ pc' = "failed"
          /\ ctl' = Throw(ArkRuntimeError("Undefined symbols", FVNames(compiled.freeVars)))
     ELSE /\ pc' = "running"
          /\ ctl' = Eval(compiled.value)
  /\ UNCHANGED <<fixedVars, kont, mark, stack, heap, nextFid, callStack, fnSymStack, out>>
  /\ UNCHANGED <<internVars, wire>>

----------------------------------------------------------------------------
(* The evaluator.                                                          *)

Bounded ==
  /\ Len(heap) <= MaxHeap
  /\ Len(stack) <= MaxFrames
  /\ Len(callStack) <= MaxFrames
  /\ nextFid <= MaxFid
  /\ Len(out) <= MaxOut

Running(m) == pc = "running" /\ ctl.m = m /\ Bounded
Evaluating(t) == Running("eval") /\ ctl.e.t = t
Top == kont[Len(kont)]
Returning(k) == Running("ret") /\ kont # <<>> /\ Top.k = k

Push(f) == kont' = Append(kont, f) /\ mark' = Append(mark, stack)
Pop == kont' = Front(kont) /\ mark' = Front(mark)
Replace(f) == kont' = [kont EXCEPT ![Len(kont)] = f] /\ UNCHANGED mark
\* The frame on top starts over: its mark is the stack now.
Restart(f) ==
  /\ kont' = [kont EXCEPT ![Len(kont)] = f]
  /\ mark' = [mark EXCEPT ![Len(mark)] = stack]

debugVars == <<callStack, fnSymStack>>

\* ArkExp.eval: a value evaluates to itself.
EvalValue ==
  /\ Running("eval")
  /\ IsConcrete(ctl.e) \/ ctl.e.t = "NativeFn"
  /\ ctl' = Ret(ctl.e)
  /\ UNCHANGED <<fixedVars, pc, kont, mark, stack, heap, nextFid, debugVars, out>>
  /\ UNCHANGED <<internVars, wire>>

\* ArkRef.eval: this.get(ark.stack)
EvalRef ==
  /\ Running("eval")
  /\ IsRef(ctl.e)
  /\ ctl' = IF RefGet(ctl.e, stack, heap) = HostTypeError THEN Throw(TypeError)
            ELSE Ret(RefGet(ctl.e, stack, heap))
  /\ UNCHANGED <<fixedVars, pc, kont, mark, stack, heap, nextFid, debugVars, out>>
  /\ UNCHANGED <<internVars, wire>>

\* ArkGet.eval up to this.val.eval(ark)
EvalGet ==
  /\ Evaluating("Get")
  /\ Push([k |-> "Get", node |-> ctl.e])
  /\ ctl' = Eval(ctl.e.val)
  /\ UNCHANGED <<fixedVars, pc, stack, heap, nextFid, debugVars, out>>
  /\ UNCHANGED <<internVars, wire>>

\* The name that ArkGet.eval puts in its error: this.val.debug.get('name').
DebugName(exp) == IF exp.t = "StackRef" THEN exp.name ELSE "undefined"

\* ArkGet.eval returning whatever the cell holds
GetReturnUnchecked ==
  /\ Returning("Get")
  /\ LET val == GetOf(ctl.v, stack, heap) IN
     ctl' = IF val = HostTypeError THEN Throw(TypeError) ELSE Ret(val)
  /\ Pop
  /\ UNCHANGED <<fixedVars, pc, stack, heap, nextFid, debugVars, out>>
  /\ UNCHANGED <<internVars, wire>>

\* ArkGet.eval from ref.get(ark.stack)
GetReturn ==
  /\ Returning("Get")
  /\ LET val == GetOf(ctl.v, stack, heap) IN
     ctl' = IF val = HostTypeError THEN Throw(TypeError)
            ELSE IF val = ArkUndefined
              THEN Throw(ArkRuntimeError("Uninitialized symbol", <<DebugName(Top.node.val)>>))
            ELSE Ret(val)
  /\ Pop
  /\ UNCHANGED <<fixedVars, pc, stack, heap, nextFid, debugVars, out>>
  /\ UNCHANGED <<internVars, wire>>

\* ArkSet.eval up to this.ref.eval(ark)
EvalSet ==
  /\ Evaluating("Set")
  /\ Push([k |-> "SetRef", node |-> ctl.e])
  /\ ctl' = Eval(ctl.e.ref)
  /\ UNCHANGED <<fixedVars, pc, stack, heap, nextFid, debugVars, out>>
  /\ UNCHANGED <<internVars, wire>>

\* ArkSet.eval with the instanceof check made as soon as the left operand is
\* evaluated.
SetRefReturnChecked ==
  /\ Returning("SetRef")
  /\ IF IsRef(ctl.v)
     THEN /\ Replace([k |-> "SetVal", node |-> Top.node, ref |-> ctl.v])
          /\ ctl' = Eval(Top.node.val)
     ELSE /\ ctl' = Throw(ArkRuntimeError("Invalid assignment", <<>>))
          /\ Pop
  /\ UNCHANGED <<fixedVars, pc, stack, heap, nextFid, debugVars, out>>
  /\ UNCHANGED <<internVars, wire>>

\* ArkSet.eval: the reference is evaluated, this.val.eval(ark) is next
SetRefReturn ==
  /\ Returning("SetRef")
  /\ Replace([k |-> "SetVal", node |-> Top.node, ref |-> ctl.v])
  /\ ctl' = Eval(Top.node.val)
  /\ UNCHANGED <<fixedVars, pc, stack, heap, nextFid, debugVars, out>>
  /\ UNCHANGED <<internVars, wire>>

\* ArkSet.eval from the instanceof check
SetValReturn ==
  /\ Returning("SetVal")
  /\ LET ref == Top.ref
         res == ctl.v
         w == RefSet(ref, stack, heap, res)
     IN IF ~IsRef(ref)
        THEN /\ ctl' = Throw(ArkRuntimeError("Invalid assignment", <<>>))
             /\ UNCHANGED <<stack, heap>>
        ELSE IF ~w.ok
        THEN /\ ctl' = Throw(TypeError)
             /\ UNCHANGED <<stack, heap>>
        ELSE /\ ctl' = Ret(res)
             /\ stack' = w.stack
             /\ heap' = w.heap
  /\ Pop
  /\ UNCHANGED <<fixedVars, pc, nextFid, debugVars, out>>
  /\ UNCHANGED <<internVars, wire>>

\* ArkLet.eval up to this.body.eval(ark)
EvalLet ==
  /\ Evaluating("Let")
  /\ LET lets == bindArgsToParams(ctl.e.boundVars, <<>>, heap) IN
     /\ heap' = lets.heap
     /\ IF stack = <<>>
        THEN /\ ctl' = Throw(TypeError)
             /\ UNCHANGED <<stack, kont, mark>>
        ELSE /\ stack' = [stack EXCEPT ![1].locals = @ \o lets.frame]
             /\ Push([k |-> "Let", n |-> Len(lets.frame)])
             /\ ctl' = Eval(ctl.e.body)
  /\ UNCHANGED <<fixedVars, pc, nextFid, debugVars, out>>
  /\ UNCHANGED <<internVars, wire>>

\* ArkLet.eval from ark.stack.pop(lets.length)
LetReturn ==
  /\ Returning("Let")
  /\ stack' = StackPop(stack, Top.n)
  /\ ctl' = Ret(ctl.v)
  /\ Pop
  /\ UNCHANGED <<fixedVars, pc, heap, nextFid, debugVars, out>>
  /\ UNCHANGED <<internVars, wire>>

\* ArkSequence.eval: the first expression, or ArkNull() when there is none
EvalSequence ==
  /\ Evaluating("Sequence")
  /\ IF ctl.e.exps = <<>>
     THEN ctl' = Ret(ArkNull) /\ UNCHANGED <<kont, mark>>
     ELSE ctl' = Eval(Head(ctl.e.exps)) /\ Push([k |-> "Sequence", rest |-> Tail(ctl.e.exps)])
  /\ UNCHANGED <<fixedVars, pc, stack, heap, nextFid, debugVars, out>>
  /\ UNCHANGED <<internVars, wire>>

\* ArkSequence.eval that returns the value of its first expression.
SequenceReturnFirst ==
  /\ Returning("Sequence")
  /\ IF Top.rest = <<>>
     THEN ctl' = Ret(IF "first" \in DOMAIN Top THEN Top.first ELSE ctl.v) /\ Pop
     ELSE /\ ctl' = Eval(Head(Top.rest))
          /\ Replace([k |-> "Sequence", rest |-> Tail(Top.rest),
                      first |-> IF "first" \in DOMAIN Top THEN Top.first ELSE ctl.v])
  /\ UNCHANGED <<fixedVars, pc, stack, heap, nextFid, debugVars, out>>
  /\ UNCHANGED <<internVars, wire>>

\* ArkSequence.eval: the next round of the loop, or return res
SequenceReturn ==
  /\ Returning("Sequence")
  /\ IF Top.rest = <<>>
     THEN ctl' = Ret(ctl.v) /\ Pop
     ELSE ctl' = Eval(Head(Top.rest)) /\ Replace([k |-> "Sequence", rest |-> Tail(Top.rest)])
  /\ UNCHANGED <<fixedVars, pc, stack, heap, nextFid, debugVars, out>>
  /\ UNCHANGED <<internVars, wire>>

\* ArkIf.eval up to this.cond.eval(ark)
EvalIf ==
  /\ Evaluating("If")
  /\ Push([k |-> "If", node |-> ctl.e])
  /\ ctl' = Eval(ctl.e.cond)
  /\ UNCHANGED <<fixedVars, pc, stack, heap, nextFid, debugVars, out>>
  /\ UNCHANGED <<internVars, wire>>

\* ArkIf.eval from toJs(condVal)
IfReturn ==
  /\ Returning("If")
  /\ ctl' = IF Truthy(ctl.v) THEN Eval(Top.node.thenExp)
            ELSE IF Top.node.elseExp # JsUndefined THEN Eval(Top.node.elseExp)
            ELSE Ret(ArkNull)
  /\ Pop
  /\ UNCHANGED <<fixedVars, pc, stack, heap, nextFid, debugVars, out>>
  /\ UNCHANGED <<internVars, wire>>

\* ArkAnd.eval up to this.left.eval(ark)
EvalAnd ==
  /\ Evaluating("And")
  /\ Push([k |-> "And", node |-> ctl.e])
  /\ ctl' = Eval(ctl.e.left)
  /\ UNCHANGED <<fixedVars, pc, stack, heap, nextFid, debugVars, out>>
  /\ UNCHANGED <<internVars, wire>>

\* ArkAnd.eval that evaluates the right operand whatever the left one gave.
AndReturnBoth ==
  /\ Returning("And")
  /\ ctl' = Eval(Top.node.right)
  /\ Pop
  /\ UNCHANGED <<fixedVars, pc, stack, heap, nextFid, debugVars, out>>
  /\ UNCHANGED <<internVars, wire>>

\* ArkAnd.eval from toJs(leftVal)
AndReturn ==
  /\ Returning("And")
  /\ ctl' = IF Truthy(ctl.v) THEN Eval(Top.node.right) ELSE Ret(ctl.v)
  /\ Pop
  /\ UNCHANGED <<fixedVars, pc, stack, heap, nextFid, debugVars, out>>
  /\ UNCHANGED <<internVars, wire>>

\* ArkOr.eval up to this.left.eval(ark)
EvalOr ==
  /\ Evaluating("Or")
  /\ Push([k |-> "Or", node |-> ctl.e])
  /\ ctl' = Eval(ctl.e.left)
  /\ UNCHANGED <<fixedVars, pc, stack, heap, nextFid, debugVars, out>>
  /\ UNCHANGED <<internVars, wire>>

\* ArkOr.eval from toJs(leftVal)
OrReturn ==
  /\ Returning("Or")
  /\ ctl' = IF Truthy(ctl.v) THEN Ret(ctl.v) ELSE Eval(Top.node.right)
  /\ Pop
  /\ UNCHANGED <<fixedVars, pc, stack, heap, nextFid, debugVars, out>>
  /\ UNCHANGED <<internVars, wire>>

\* ArkLoop.eval: the first iteration
EvalLoop ==
  /\ Evaluating("Loop")
  /\ Push([k |-> "Loop", body |-> ctl.e.body])
  /\ ctl' = Eval(ctl.e.body)
  /\ UNCHANGED <<fixedVars, pc, stack, heap, nextFid, debugVars, out>>
  /\ UNCHANGED <<internVars, wire>>

\* ArkLoop.eval that returns what its body returned.
LoopReturnOnce ==
  /\ Returning("Loop")
  /\ ctl' = Ret(ctl.v)
  /\ Pop
  /\ UNCHANGED <<fixedVars, pc, stack, heap, nextFid, debugVars, out>>
  /\ UNCHANGED <<internVars, wire>>

\* ArkLoop.eval: the body returned, the for (;;) goes round
LoopReturn ==
  /\ Returning("Loop")
  /\ Restart(Top)
  /\ ctl' = Eval(Top.body)
  /\ UNCHANGED <<fixedVars, pc, stack, heap, nextFid, debugVars, out>>
  /\ UNCHANGED <<internVars, wire>>

\* A catch clause that returns from the loop on either exception, without
\* the payload.
LoopCatchAny ==
  /\ Running("throw")
  /\ kont # <<>> /\ Top.k = "Loop"
  /\ ctl.x.x \in {"ArkBreakException", "ArkContinueException"}
  /\ ctl' = Ret(ArkNull) /\ Pop
  /\ UNCHANGED <<fixedVars, pc, stack, heap, nextFid, debugVars, out>>
  /\ UNCHANGED <<internVars, wire>>

\* ArkLoop.eval: the catch clause, for the two exceptions it handles
LoopCatch ==
  /\ Running("throw")
  /\ kont # <<>> /\ Top.k = "Loop"
  /\ ctl.x.x \in {"ArkBreakException", "ArkContinueException"}
  /\ IF ctl.x.x = "ArkBreakException"
     THEN ctl' = Ret(ctl.x.val) /\ Pop
     ELSE ctl' = Eval(Top.body) /\ Restart(Top)
  /\ UNCHANGED <<fixedVars, pc, stack, heap, nextFid, debugVars, out>>
  /\ UNCHANGED <<internVars, wire>>

\* ArkFn.eval
EvalFn ==
  /\ Evaluating("Fn")
  /\ LET c == captureFreeVars(ctl.e.boundFreeVars, stack,
                              [ok |-> TRUE, frame |-> <<>>, heap |-> heap])
     IN IF c.ok
        THEN /\ ctl' = Ret(ArkClosure(ctl.e.params, c.frame, ctl.e.body))
             /\ heap' = c.heap
        ELSE /\ ctl' = Throw(TypeError)
             /\ UNCHANGED heap
  /\ UNCHANGED <<fixedVars, pc, kont, mark, stack, nextFid, debugVars, out>>
  /\ UNCHANGED <<internVars, wire>>

\* new ArkList(list): the reference to the new object and the heap with it.
NewList(list, hp) == [val |-> ArkList(Len(hp) + 1), heap |-> Append(hp, ListData(list))]

\* ArkListLiteral.eval: the first element, or the empty list
EvalListLiteral ==
  /\ Evaluating("ListLiteral")
  /\ IF ctl.e.list = <<>>
     THEN /\ ctl' = Ret(NewList(<<>>, heap).val)
          /\ heap' = NewList(<<>>, heap).heap
          /\ UNCHANGED <<kont, mark>>
     ELSE /\ ctl' = Eval(Head(ctl.e.list))
          /\ Push([k |-> "ListLiteral", rest |-> Tail(ctl.e.list), vals |-> <<>>])
          /\ UNCHANGED heap
  /\ UNCHANGED <<fixedVars, pc, stack, nextFid, debugVars, out>>
  /\ UNCHANGED <<internVars, wire>>

\* ArkListLiteral.eval: the next element of the map, or new ArkList
ListLiteralReturn ==
  /\ Returning("ListLiteral")
  /\ LET vals == Append(Top.vals, ctl.v) IN
     IF Top.rest = <<>>
     THEN /\ ctl' = Ret(NewList(vals, heap).val)
          /\ heap' = NewList(vals, heap).heap
          /\ Pop
     ELSE /\ ctl' = Eval(Head(Top.rest))
          /\ Replace([k |-> "ListLiteral", rest |-> Tail(Top.rest), vals |-> vals])
          /\ UNCHANGED heap
  /\ UNCHANGED <<fixedVars, pc, stack, nextFid, debugVars, out>>
  /\ UNCHANGED <<internVars, wire>>

\* ArkProperty.eval up to this.obj.eval(ark)
EvalProperty ==
  /\ Evaluating("Property")
  /\ Push([k |-> "Property", node |-> ctl.e])
  /\ ctl' = Eval(ctl.e.obj)
  /\ UNCHANGED <<fixedVars, pc, stack, heap, nextFid, debugVars, out>>
  /\ UNCHANGED <<internVars, wire>>

\* ArkProperty.eval: new ArkPropertyRef(obj, this.prop)
PropertyReturn ==
  /\ Returning("Property")
  /\ ctl' = Ret(ArkPropertyRef(ctl.v, Top.node.prop))
  /\ Pop
  /\ UNCHANGED <<fixedVars, pc, stack, heap, nextFid, debugVars, out>>
  /\ UNCHANGED <<internVars, wire>>

\* What the constructor of ArkMap makes: the map, its entries [key, val] in
\* the order of insertion, and val with the two methods.
MapData(map) ==
  [t |-> "MapData", map |-> map,
   val |-> <<[key |-> JStr("set"), val |-> [t |-> "Method", name |-> "Map.set"]],
             [key |-> JStr("get"), val |-> [t |-> "Method", name |-> "Map.get"]]>>]
NewMap(map, hp) == [val |-> ArkMap(Len(hp) + 1), heap |-> Append(hp, MapData(map))]

\* The host's comparison of the keys of a Map: one object, or one interned
\* value; every closure and every ArkPropertyRef is an object of its own.
SameValueZero(a, b) == a = b /\ a.t \notin {"Closure", "PropertyRef"}

\* Map.prototype.set and Map.prototype.get on evaluated keys.
EvaluatedMapSet(map, key, val) ==
  IF \E i \in 1..Len(map) : SameValueZero(map[i].key, key)
  THEN [i \in 1..Len(map) |->
          IF SameValueZero(map[i].key, key) THEN [key |-> map[i].key, val |-> val]
          ELSE map[i]]
  ELSE Append(map, [key |-> key, val |-> val])
EvaluatedMapGet(map, key) ==
  LET found == {i \in 1..Len(map) : SameValueZero(map[i].key, key)}
  IN IF found = {} THEN JsUndefined ELSE map[CHOOSE i \in found : TRUE].val

\* ArkMapLiteral.eval: the key of the first entry, or the empty map
EvalMapLiteral ==
  /\ Evaluating("MapLiteral")
  /\ IF ctl.e.map = <<>>
     THEN /\ ctl' = Ret(NewMap(<<>>, heap).val)
          /\ heap' = NewMap(<<>>, heap).heap
          /\ UNCHANGED <<kont, mark>>
     ELSE /\ ctl' = Eval(Head(ctl.e.map).key)
          /\ Push([k |-> "MapKey", val |-> Head(ctl.e.map).val,
                   rest |-> Tail(ctl.e.map), map |-> <<>>])
          /\ UNCHANGED heap
  /\ UNCHANGED <<fixedVars, pc, stack, nextFid, debugVars, out>>
  /\ UNCHANGED <<internVars, wire>>

\* ArkMapLiteral.eval: k.eval(ark) returned, v.eval(ark) is next
MapKeyReturn ==
  /\ Returning("MapKey")
  /\ Replace([k |-> "MapVal", key |-> ctl.v, rest |-> Top.rest, map |-> Top.map])
  /\ ctl' = Eval(Top.val)
  /\ UNCHANGED <<fixedVars, pc, stack, heap, nextFid, debugVars, out>>
  /\ UNCHANGED <<internVars, wire>>

\* ArkMapLiteral.eval: evaluatedMap.set, then the next entry or new ArkMap
MapValReturn ==
  /\ Returning("MapVal")
  /\ LET map == EvaluatedMapSet(Top.map, Top.key, ctl.v) IN
     IF Top.rest = <<>>
     THEN /\ ctl' = Ret(NewMap(map, heap).val)
          /\ heap' = NewMap(map, heap).heap
          /\ Pop
     ELSE /\ ctl' = Eval(Head(Top.rest).key)
          /\ Replace([k |-> "MapKey", val |-> Head(Top.rest).val,
                      rest |-> Tail(Top.rest), map |-> map])
          /\ UNCHANGED heap
  /\ UNCHANGED <<fixedVars, pc, stack, nextFid, debugVars, out>>
  /\ UNCHANGED <<internVars, wire>>

\* ArkCall.eval up to fn.eval(ark)
EvalCall ==
  /\ Evaluating("Call")
  /\ LET fn == ctl.e.fn
         sym == IF fn.t = "Get" /\ IsRef(fn.val) THEN fn.val ELSE JsUndefined
     IN Push([k |-> "CallFn", node |-> ctl.e, sym |-> sym])
  /\ ctl' = Eval(ctl.e.fn)
  /\ UNCHANGED <<fixedVars, pc, stack, heap, nextFid, debugVars, out>>
  /\ UNCHANGED <<internVars, wire>>

\* ArkCall.eval without the instanceof check: the arguments are evaluated
\* whatever the function expression gave.
CallFnReturnUnchecked ==
  /\ Returning("CallFn")
  /\ callStack' = <<Top.node>> \o callStack
  /\ fnSymStack' = <<Top.sym>> \o fnSymStack
  /\ Replace([k |-> "Args", fnVal |-> ctl.v, rest |-> Top.node.args, vals |-> <<>>])
  /\ ctl' = ArgsLoop
  /\ UNCHANGED <<fixedVars, pc, stack, heap, nextFid, out>>
  /\ UNCHANGED <<internVars, wire>>

\* ArkCall.eval from the instanceof check to fnVal.call, which starts with
\* ark.evaluateArgs
CallFnReturn ==
  /\ Returning("CallFn")
  /\ IF ctl.v.t \in {"Closure", "NativeFn"}
     THEN /\ callStack' = <<Top.node>> \o callStack
          /\ fnSymStack' = <<Top.sym>> \o fnSymStack
          /\ Replace([k |-> "Args", fnVal |-> ctl.v, rest |-> Top.node.args, vals |-> <<>>])
          /\ ctl' = ArgsLoop
     ELSE /\ ctl' = Throw(ArkRuntimeError("Invalid call", <<>>))
          /\ Pop
          /\ UNCHANGED debugVars
  /\ UNCHANGED <<fixedVars, pc, stack, heap, nextFid, out>>
  /\ UNCHANGED <<internVars, wire>>

\* evaluateArgs taking the arguments from the right
EvaluateArgsFromRight ==
  /\ Running("args")
  /\ Top.rest # <<>>
  /\ ctl' = Eval(Last(Top.rest))
  /\ Replace([Top EXCEPT !.rest = Front(@)])
  /\ UNCHANGED <<fixedVars, pc, stack, heap, nextFid, debugVars, out>>
  /\ UNCHANGED <<internVars, wire>>

\* ArkState.evaluateArgs: the loop takes the next argument
EvaluateArgsNext ==
  /\ Running("args")
  /\ Top.rest # <<>>
  /\ ctl' = Eval(Head(Top.rest))
  /\ Replace([Top EXCEPT !.rest = Tail(@)])
  /\ UNCHANGED <<fixedVars, pc, stack, heap, nextFid, debugVars, out>>
  /\ UNCHANGED <<internVars, wire>>

\* ArkState.evaluateArgs: evaluatedArgs.push(arg.eval(this))
ArgReturn ==
  /\ Returning("Args")
  /\ Replace([Top EXCEPT !.vals = Append(@, ctl.v)])
  /\ ctl' = ArgsLoop
  /\ UNCHANGED <<fixedVars, pc, stack, heap, nextFid, debugVars, out>>
  /\ UNCHANGED <<internVars, wire>>

\* callStack.shift() and fnSymStack.pop() of ArkCall.eval
Shifted(s) == IF s = <<>> THEN <<>> ELSE Tail(s)
Popped(s) == IF s = <<>> THEN <<>> ELSE Front(s)

\* NativeFn.call after evaluateArgs, and the rest of ArkCall.eval when the
\* body returns
NativeCall ==
  /\ Running("args")
  /\ Top.rest = <<>>
  /\ Top.fnVal.t = "NativeFn"
  /\ "self" \notin DOMAIN Top.fnVal
  /\ LET r == NativeApply(Top.fnVal.name, Top.vals) IN
     /\ ctl' = r.ctl
     /\ out' = out \o r.written
     /\ IF r.ctl.m = "ret"
        THEN callStack' = Shifted(callStack) /\ fnSymStack' = Popped(fnSymStack)
        ELSE UNCHANGED debugVars
  /\ Pop
  /\ UNCHANGED <<fixedVars, pc, stack, heap, nextFid>>
  /\ UNCHANGED <<internVars, wire>>

\* toJs(index) is an index of the host's array.
IsIndex(index) == index.t = "Num" /\ index.n >= 0

\* NativeFn.call after evaluateArgs for the get and set of an ArkList, with
\* an index of the array, and the rest of ArkCall.eval.
ListMethodCall ==
  /\ Running("args")
  /\ Top.rest = <<>>
  /\ Top.fnVal.t = "NativeFn"
  /\ "self" \in DOMAIN Top.fnVal
  /\ Top.fnVal.name \in {"List.get", "List.set"}
  /\ LET self == Top.fnVal.self
         index == At(Top.vals, 0)
         val == At(Top.vals, 1)
     IN /\ IsIndex(index)
        /\ IF Top.fnVal.name = "List.get"
           THEN /\ ctl' = Ret(At(heap[self].list, index.n))
                /\ UNCHANGED heap
           ELSE /\ index.n < MaxList
                /\ heap' = [heap EXCEPT ![self].list = AtPut(@, index.n, val)]
                /\ ctl' = Ret(val)
  /\ callStack' = Shifted(callStack)
  /\ fnSymStack' = Popped(fnSymStack)
  /\ Pop
  /\ UNCHANGED <<fixedVars, pc, stack, nextFid, out>>
  /\ UNCHANGED <<internVars, wire>>

\* NativeFn.call after evaluateArgs for the get and set of an ArkMap, and the
\* rest of ArkCall.eval.
MapMethodCall ==
  /\ Running("args")
  /\ Top.rest = <<>>
  /\ Top.fnVal.t = "NativeFn"
  /\ "self" \in DOMAIN Top.fnVal
  /\ Top.fnVal.name \in {"Map.get", "Map.set"}
  /\ LET self == Top.fnVal.self
         index == At(Top.vals, 0)
         val == At(Top.vals, 1)
     IN IF Top.fnVal.name = "Map.get"
        THEN /\ ctl' = Ret(Coalesce(EvaluatedMapGet(heap[self].map, index), ArkNull))
             /\ UNCHANGED heap
        ELSE /\ heap' = [heap EXCEPT ![self].map = EvaluatedMapSet(@, index, val)]
             /\ ctl' = Ret(val)
  /\ callStack' = Shifted(callStack)
  /\ fnSymStack' = Popped(fnSymStack)
  /\ Pop
  /\ UNCHANGED <<fixedVars, pc, stack, nextFid, out>>
  /\ UNCHANGED <<internVars, wire>>

\* ArkClosure.call after evaluateArgs, up to this.body.eval(ark)
ClosureCall ==
  /\ Running("args")
  /\ Top.rest = <<>>
  /\ Top.fnVal.t = "Closure"
  /\ LET b == bindArgsToParams(Top.fnVal.params, Top.vals, heap) IN
     /\ heap' = b.heap
     /\ stack' = <<Frame(b.frame, Top.fnVal.freeVars, nextFid)>> \o stack
  /\ nextFid' = nextFid + 1
  /\ Restart([k |-> "Body", fid |-> nextFid])
  /\ ctl' = Eval(Top.fnVal.body)
  /\ UNCHANGED <<fixedVars, pc, debugVars, out>>
  /\ UNCHANGED <<internVars, wire>>

\* RuntimeStack.popFrame
popFrame(stk) == IF stk = <<>> THEN <<>> ELSE Tail(stk)

\* ArkClosure.call: the body returned; ark.stack.popFrame(), and the rest of
\* ArkCall.eval
ClosureReturn ==
  /\ Returning("Body")
  /\ stack' = popFrame(stack)
  /\ callStack' = Shifted(callStack)
  /\ fnSymStack' = Popped(fnSymStack)
  /\ ctl' = Ret(ctl.v)
  /\ Pop
  /\ UNCHANGED <<fixedVars, pc, heap, nextFid, out>>
  /\ UNCHANGED <<internVars, wire>>

\* A catch clause of ArkClosure.call that takes every non-local exit for the
\* result of the call.
ClosureCatchAny ==
  /\ Running("throw")
  /\ kont # <<>> /\ Top.k = "Body"
  /\ ctl.x.x \in {"ArkReturnException", "ArkBreakException", "ArkContinueException"}
  /\ callStack' = Shifted(callStack)
  /\ fnSymStack' = Popped(fnSymStack)
  /\ ctl' = Ret(ctl.x.val)
  /\ Pop
  /\ UNCHANGED <<fixedVars, pc, stack, heap, nextFid, out>>
  /\ UNCHANGED <<internVars, wire>>

\* ArkClosure.call: the catch clause for ArkReturnException, and the rest of
\* ArkCall.eval
ClosureCatch ==
  /\ Running("throw")
  /\ kont # <<>> /\ Top.k = "Body"
  /\ ctl.x.x = "ArkReturnException"
  /\ callStack' = Shifted(callStack)
  /\ fnSymStack' = Popped(fnSymStack)
  /\ ctl' = Ret(ctl.x.val)
  /\ Pop
  /\ UNCHANGED <<fixedVars, pc, stack, heap, nextFid, out>>
  /\ UNCHANGED <<internVars, wire>>

\* Whether the eval method on top of the host stack catches the exception.
Catches(f, x) ==
  \/ f.k = "Loop" /\ x.x \in {"ArkBreakException", "ArkContinueException"}
  \/ f.k = "Body" /\ x.x = "ArkReturnException"

\* An eval method that turns an exception nothing catches into its payload.
UnwindToValue ==
  /\ Running("throw")
  /\ kont # <<>>
  /\ ~Catches(Top, ctl.x)
  /\ ctl' = IF Top.k = "Sequence" /\ ctl.x.x = "ArkBreakException"
            THEN Ret(ctl.x.val) ELSE ctl
  /\ Pop
  /\ UNCHANGED <<fixedVars, pc, stack, heap, nextFid, debugVars, out>>
  /\ UNCHANGED <<internVars, wire>>

\* An exception leaves an eval method that does not catch it (or rethrows it).
Unwind ==
  /\ Running("throw")
  /\ kont # <<>>
  /\ ~Catches(Top, ctl.x)
  /\ ctl' = IF Top.k = "Body" THEN [ctl EXCEPT !.via = Append(@, Top.fid)]
             ELSE IF Top.k = "Let"
             THEN [ctl EXCEPT !.lets = Append(@, [fid |-> Last(mark)[1].fid,
                                                  n |-> Len(Last(mark)[1].locals)])]
             ELSE ctl
  /\ Pop
  /\ UNCHANGED <<fixedVars, pc, stack, heap, nextFid, debugVars, out>>
  /\ UNCHANGED <<internVars, wire>>

\* compiledVal.value.eval(this) returns: run returns the value
Finish ==
  /\ Running("ret")
  /\ kont = <<>>
  /\ pc' = "done"
  /\ UNCHANGED <<fixedVars, ctl, kont, mark, stack, heap, nextFid, debugVars, out>>
  /\ UNCHANGED <<internVars, wire>>

\* An exception leaves run
Escape ==
  /\ Running("throw")
  /\ kont = <<>>
  /\ pc' = "failed"
  /\ UNCHANGED <<fixedVars, ctl, kont, mark, stack, heap, nextFid, debugVars, out>>
  /\ UNCHANGED <<internVars, wire>>

----------------------------------------------------------------------------
(* The documents compiled and run.                                         *)

S(s) == JStr(s)
A(a) == JArr(a)
N(n) == JNum(n)
Params(names) == A(<<S("params")>> \o [i \in 1..Len(names) |-> S(names[i])])
JLet(names, body) == A(<<S("let"), Params(names), body>>)
JFn(names, body) == A(<<S("fn"), Params(names), body>>)
JSeq(exps) == A(<<S("seq")>> \o exps)
JGet(x) == A(<<S("get"), x>>)
JSet(r, v) == A(<<S("set"), r, v>>)
JRef(x) == A(<<S("ref"), x>>)
JLoop(body) == A(<<S("loop"), body>>)
JCall(fn, args) == A(<<fn>> \o args)

\* A program put inside one more construct: a Let, a call of a closure, a
\* Loop (left by a break after the program), a Sequence, an If.
Wrappers == {"let", "call", "loop", "seq"}
Wrap(w, j) ==
  IF w = "let" THEN JLet(<<"a">>, j)
  ELSE IF w = "call" THEN JCall(JFn(<<"x">>, j), <<N(1)>>)
  ELSE IF w = "loop" THEN JLoop(JSeq(<<j, JCall(S("break"), <<N(7)>>)>>))
  ELSE JSeq(<<N(1), j>>)

\* What the innermost construct holds: a value, a non-local exit, a read of
\* the Let-bound name (bare and through get), a write of it.
Leaves ==
  { N(1),
    JCall(S("break"), <<N(5)>>),
    JCall(S("continue"), <<>>),
    JCall(S("return"), <<N(6)>>),
    S("a"),
    JGet(S("a")),
    JSet(S("a"), N(3)) }

RECURSIVE Nested(_)
Nested(depth) ==
  IF depth = 0 THEN Leaves
  ELSE Nested(depth - 1) \cup {Wrap(w, j) : w \in Wrappers, j \in Nested(depth - 1)}

ContextPrograms == Nested(MaxNest)

JPrint(n) == JCall(S("print"), <<N(n)>>)
JList(exps) == A(<<S("list")>> \o exps)
JIf(c, t, e) == A(<<S("if"), c, t, e>>)

\* A closure that reads the captured name s, made after s was first set to
\* 0; s is then set to v from outside the closure, through the bare symbol or
\* through ["ref", "s"], and the closure is called `calls` times.
CaptureProgram(form, v, calls) ==
  JLet(<<"s", "c">>, JSeq(<<
    JSet(S("s"), N(0)),
    JSet(S("c"), JFn(<<>>, JGet(S("s")))),
    JSet(IF form = "ref" THEN JRef(S("s")) ELSE S("s"), N(v)),
    JList([i \in 1..calls |-> JCall(JGet(S("c")), <<>>)]) >>))

CaptureForms == {"sym", "ref"}
CapturePrograms ==
  {CaptureProgram(form, v, calls) : form \in CaptureForms, v \in {1, 2}, calls \in {1, 2}}

\* A call whose function expression prints 0 and whose n arguments print
\* 1..n: the console shows the order of evaluation.  A closure callee prints
\* 9 in its body.
ArgOrderCallees ==
  { JFn(<<"p", "q", "r">>, JPrint(9)), JFn(<<>>, JPrint(9)), S("+"), S("not") }
ArgOrderProgram(callee, n) ==
  JCall(JSeq(<<JPrint(0), callee>>), [i \in 1..n |-> JPrint(i)])
ArgOrderPrograms == {ArgOrderProgram(callee, n) : callee \in ArgOrderCallees, n \in 0..3}

\* The scenarios of the documentation and of the tests, and the constructs
\* that the generated programs do not hold.
Factorial(n) ==
  JLet(<<"fac">>, JSeq(<<
    JSet(S("fac"), JFn(<<"n">>,
      JIf(JCall(S("<="), <<JGet(S("n")), N(1)>>), N(1),
          JCall(S("*"), <<JGet(S("n")),
                          JCall(JGet(S("fac")), <<JCall(S("-"), <<JGet(S("n")), N(1)>>)>>)>>)))),
    JCall(JGet(S("fac")), <<N(n)>>) >>))

CountingLoop ==
  JLet(<<"i">>, JSeq(<<
    JSet(S("i"), N(0)),
    JLoop(JSeq(<<
      JSet(S("i"), JCall(S("+"), <<JGet(S("i")), N(1)>>)),
      A(<<S("if"), JCall(S("="), <<JGet(S("i")), N(2)>>),
          JCall(S("break"), <<JGet(S("i"))>>)>>) >>)) >>))

\* loop (print 1; break 5; print 2)
BreakProgram ==
  JLoop(JSeq(<<JPrint(1), JCall(S("break"), <<N(5)>>), JPrint(2)>>))

\* let i in (i := 0; loop (i := i + 1; print i; if i = 1 then continue;
\* break i; print 9))
ContinueProgram ==
  JLet(<<"i">>, JSeq(<<
    JSet(S("i"), N(0)),
    JLoop(JSeq(<<
      JSet(S("i"), JCall(S("+"), <<JGet(S("i")), N(1)>>)),
      JCall(S("print"), <<JGet(S("i"))>>),
      A(<<S("if"), JCall(S("="), <<JGet(S("i")), N(1)>>),
          JCall(S("continue"), <<>>)>>),
      JCall(S("break"), <<JGet(S("i"))>>),
      JPrint(9) >>)) >>))

\* loop (print (loop (break 1)); break 2; print 9)
InnerBreakProgram ==
  JLoop(JSeq(<<JCall(S("print"), <<JLoop(JCall(S("break"), <<N(1)>>))>>),
               JCall(S("break"), <<N(2)>>), JPrint(9)>>))

\* let i in (i := 0; loop (i := i + 1; loop (print i; if i = 2 then break;
\* i := 2; continue; print 8); break i))
InnerContinueProgram ==
  JLet(<<"i">>, JSeq(<<
    JSet(S("i"), N(0)),
    JLoop(JSeq(<<
      JSet(S("i"), JCall(S("+"), <<JGet(S("i")), N(1)>>)),
      JLoop(JSeq(<<
        JCall(S("print"), <<JGet(S("i"))>>),
        A(<<S("if"), JCall(S("="), <<JGet(S("i")), N(2)>>),
            JCall(S("break"), <<>>)>>),
        JSet(S("i"), N(2)),
        JCall(S("continue"), <<>>),
        JPrint(8) >>)),
      JCall(S("break"), <<JGet(S("i"))>>) >>)) >>))

\* Exits under an If, with no Loop around them.
IfExitPrograms ==
  { A(<<S("if"), JBool(TRUE), JCall(S("break"), <<>>)>>),
    JIf(JBool(FALSE), N(1), JCall(S("continue"), <<>>)),
    JLet(<<"a">>,
      JCall(JFn(<<>>, JSeq(<<JPrint(1),
                             A(<<S("if"), JBool(TRUE), JCall(S("break"), <<>>)>>),
                             JPrint(2)>>)), <<>>)) }

\* The tags of the forms that take a fixed number of elements, and the
\* numbers they take.
FixedTags ==
  {"str", "let", "fn", "prop", "ref", "get", "set", "if", "and", "or", "loop"}
Arity(tag) ==
  IF tag \in {"str", "ref", "get", "loop"} THEN {2}
  ELSE IF tag = "if" THEN {3, 4}
  ELSE {3}

\* The form of n elements with this tag, each element one the tag accepts in
\* its place.
Form(tag, n) ==
  A(<<S(tag)>> \o
    [i \in 1..(n - 1) |->
       IF i = 1 /\ tag \in {"let", "fn"} THEN Params(<<"a">>)
       ELSE IF i = 1 /\ tag \in {"str", "prop"} THEN S("a")
       ELSE N(1)])

MalformedForms ==
  UNION {{Form(tag, n) : n \in (1..MaxForm) \ Arity(tag)} : tag \in FixedTags}

\* A map with a pair that has not two elements (or is no array), first or
\* after a good pair.
BadPairs == {A(<<>>), A(<<N(1)>>), A(<<N(1), N(2), N(3)>>), N(1)}
MalformedMaps ==
  {A(<<S("map"), pair>>) : pair \in BadPairs}
    \cup {A(<<S("map"), A(<<N(1), N(2)>>), pair>>) : pair \in BadPairs}

\* Where a form stands: alone, or as an operand of a well-formed form.
Places == {"top", "seq", "fn", "arg", "map"}
Place(place, j) ==
  IF place = "seq" THEN JSeq(<<N(1), j>>)
  ELSE IF place = "fn" THEN JFn(<<"x">>, j)
  ELSE IF place = "arg" THEN JCall(S("print"), <<j>>)
  ELSE IF place = "map" THEN A(<<S("map"), A(<<N(1), j>>)>>)
  ELSE j

MalformedPrograms ==
  {Place(place, j) : place \in Places, j \in MalformedForms \cup MalformedMaps}

\* Parameter lists that arkParamList must refuse, and some it accepts.
BadParamLists ==
  { JNull, N(1), JBool(TRUE), S("params"), A(<<>>), A(<<S("x")>>), A(<<N(1)>>),
    A(<<S("params"), N(1)>>), A(<<S("params"), S("a"), JNull>>),
    A(<<S("params"), A(<<>>)>>),
    Params(<<"a", "a">>), Params(<<"a", "b", "a">>) }
GoodParamLists == {Params(<<>>), Params(<<"a">>), Params(<<"a", "b">>)}

\* Bodies: one that compiles, and three whose compilation would show (an
\* undefined symbol, a malformed form, a new reference cell).
Bodies == {N(1), S("nowhere"), A(<<S("get")>>), JRef(N(1))}

Binder(tag, params, body) == A(<<S(tag), params, body>>)

ParamListPrograms ==
  {Place(place, Binder(tag, params, body)) :
     place \in {"top", "seq", "arg"}, tag \in {"let", "fn"},
     params \in BadParamLists \cup GoodParamLists, body \in Bodies}

\* Documents in which x is bound more than once: Let in Let, a parameter
\* over a Let, and in a function that captures the outer x a Let that binds
\* x again, after and before the reference to the outer x.
LetInLet == JLet(<<"x">>, JLet(<<"y", "x">>, S("x")))
ParamOverLet == JLet(<<"x">>, JFn(<<"x">>, S("x")))
RebindAfterCapture ==
  JLet(<<"x">>, JFn(<<>>, JSeq(<<S("x"), JLet(<<"x">>, S("x"))>>)))
RebindBeforeCapture ==
  JLet(<<"x">>, JFn(<<>>, JSeq(<<JLet(<<"x">>, S("x")), S("x")>>)))
RebindPrograms == {LetInLet, ParamOverLet, RebindAfterCapture, RebindBeforeCapture}

\* A function of x that returns a function that reads x, n function levels
\* further in, and the calls that run the innermost body when every
\* enclosing function has returned.
RECURSIVE Thunks(_, _)
Thunks(n, body) == IF n = 0 THEN body ELSE JFn(<<>>, Thunks(n - 1, body))
RECURSIVE Forced(_, _)
Forced(n, fn) == IF n = 0 THEN fn ELSE JCall(Forced(n - 1, fn), <<>>)
ReadOutward(n) ==
  Forced(n, JCall(JFn(<<"x">>, Thunks(n, JGet(S("x")))), <<N(5)>>))
\* The same as the body of a function whose own local holds 8.
ReadOutwardInCall(n) == JCall(JFn(<<"w">>, ReadOutward(n)), <<N(8)>>)
\* The closure made by one function and called two frames deep in another.
CalledDeeper ==
  JCall(JFn(<<"f">>, JCall(JFn(<<"z">>, JCall(JGet(S("f")), <<>>)), <<N(1)>>)),
        <<JCall(JFn(<<"x">>, JFn(<<>>, JGet(S("x")))), <<N(5)>>)>>)
MaxLevels == 2
LexicalPrograms ==
  {ReadOutward(n) : n \in 1..MaxLevels} \cup {ReadOutwardInCall(n) : n \in 1..MaxLevels}
    \cup {CalledDeeper}

\* A closure sets the captured x to 2 (or adds 1 to it twice); the value is
\* then read in the enclosing scope, by another closure made before the Set,
\* or left by the second call of the same closure.  The Set names x by the
\* bare symbol or by ["ref","x"].
SetTarget(form) == IF form = "ref" THEN JRef(S("x")) ELSE S("x")
CapturedSetProgram(reader, form) ==
  IF reader = "scope" THEN
    JLet(<<"x">>, JSeq(<<JSet(S("x"), N(1)),
                         JCall(JFn(<<>>, JSet(SetTarget(form), N(2))), <<>>),
                         JGet(S("x"))>>))
  ELSE IF reader = "other" THEN
    JLet(<<"x", "r">>, JSeq(<<JSet(S("x"), N(1)),
                              JSet(S("r"), JFn(<<>>, JGet(S("x")))),
                              JCall(JFn(<<>>, JSet(SetTarget(form), N(2))), <<>>),
                              JCall(JGet(S("r")), <<>>)>>))
  ELSE
    JLet(<<"x", "c">>, JSeq(<<JSet(S("x"), N(0)),
                              JSet(S("c"), JFn(<<>>, JSet(SetTarget(form),
                                     JCall(S("+"), <<JGet(S("x")), N(1)>>)))),
                              JCall(JGet(S("c")), <<>>),
                              JCall(JGet(S("c")), <<>>)>>))
Readers == {"scope", "other", "again"}
CapturedSetPrograms ==
  {CapturedSetProgram(reader, form) : reader \in Readers, form \in CaptureForms}

\* mk makes a counter that starts at n; a counts from 10 and b from 20: a is
\* called twice, then b once, and each result is printed.
TwoCounters ==
  JLet(<<"mk", "a", "b">>, JSeq(<<
    JSet(S("mk"), JFn(<<"n">>,
      JFn(<<>>, JSet(S("n"), JCall(S("+"), <<JGet(S("n")), N(1)>>))))),
    JSet(S("a"), JCall(JGet(S("mk")), <<N(10)>>)),
    JSet(S("b"), JCall(JGet(S("mk")), <<N(20)>>)),
    JCall(S("print"), <<JCall(JGet(S("a")), <<>>)>>),
    JCall(S("print"), <<JCall(JGet(S("a")), <<>>)>>),
    JCall(S("print"), <<JCall(JGet(S("b")), <<>>)>>) >>))

\* print ((fn () loop (1; let a in return 6; print 9))()): the Return leaves a
\* Let, a Sequence and a Loop.
ReturnThroughLoop ==
  JCall(S("print"), <<JCall(JFn(<<>>,
    JLoop(JSeq(<<N(1), JLet(<<"a">>, JCall(S("return"), <<N(6)>>)), JPrint(9)>>))), <<>>)>>)
\* (fn () (print ((fn () (return 1; print 8))()); return 2; print 9))()
ReturnFromInner ==
  JCall(JFn(<<>>, JSeq(<<
    JCall(S("print"), <<JCall(JFn(<<>>, JSeq(<<JCall(S("return"), <<N(1)>>), JPrint(8)>>)), <<>>)>>),
    JCall(S("return"), <<N(2)>>),
    JPrint(9)>>)), <<>>)
\* loop (print 1; (fn () (break 5; print 8))(); print 9)
BreakThroughCall ==
  JLoop(JSeq(<<JPrint(1),
               JCall(JFn(<<>>, JSeq(<<JCall(S("break"), <<N(5)>>), JPrint(8)>>)), <<>>),
               JPrint(9)>>))
\* loop (print 1; (fn () (continue; print 8))(); print 9): it goes round for
\* ever.
ContinueThroughCall ==
  JLoop(JSeq(<<JPrint(1),
               JCall(JFn(<<>>, JSeq(<<JCall(S("continue"), <<>>), JPrint(8)>>)), <<>>),
               JPrint(9)>>))
SignalPrograms ==
  {ReturnThroughLoop, ReturnFromInner, BreakThroughCall, ContinueThroughCall}

\* let a in (print 1; get a; print 9)
GetBeforeSet == JLet(<<"a">>, JSeq(<<JPrint(1), JGet(S("a")), JPrint(9)>>))
\* let a, b in (set a 3; print (get a); get b; print 9)
GetOfOther ==
  JLet(<<"a", "b">>, JSeq(<<JSet(S("a"), N(3)), JCall(S("print"), <<JGet(S("a"))>>),
                            JGet(S("b")), JPrint(9)>>))
\* let a in (set a 3; get a)
GetAfterSet == JLet(<<"a">>, JSeq(<<JSet(S("a"), N(3)), JGet(S("a"))>>))
\* A function whose Let sets a only when k holds, called with true and then
\* with false: the second evaluation of the Let has a cell of its own.
LetTwice ==
  JCall(JFn(<<"f">>, JSeq(<<JCall(JGet(S("f")), <<JBool(TRUE)>>),
                            JCall(JGet(S("f")), <<JBool(FALSE)>>),
                            JPrint(9)>>)),
        <<JFn(<<"k">>, JLet(<<"a">>, JSeq(<<
            JIf(JGet(S("k")), JSet(S("a"), N(3)), JNull),
            JCall(S("print"), <<JGet(S("a"))>>)>>)))>>)
UninitializedPrograms == {GetBeforeSet, GetOfOther, GetAfterSet, LetTwice}

\* Sets whose left operand is no reference: the value of a call of print, a
\* number, the value of a (with a right operand that fails, and with one that
\* does not), and pi, which evaluates to the number in its cell.
SetOfPrint == JSet(JPrint(1), JPrint(2))
SetOfNumber == JSeq(<<JSet(N(1), JPrint(2)), JPrint(9)>>)
SetOfValueFailing ==
  JLet(<<"a", "b">>, JSeq(<<JSet(S("a"), N(1)), JSet(JGet(S("a")), JGet(S("b")))>>))
SetOfValue ==
  JLet(<<"a">>, JSeq(<<JSet(S("a"), N(1)), JSet(JGet(S("a")), N(5)), JPrint(9)>>))
SetOfGlobal == JSet(S("pi"), N(3))
InvalidSetPrograms ==
  {SetOfPrint, SetOfNumber, SetOfValueFailing, SetOfValue, SetOfGlobal}

\* Calls of what is no function, with an argument that prints 2: a number,
\* the value of a call of print, the value of a, the cell of f (the bare
\* symbol, where f holds a closure), and the value of a parameter in the body
\* of a called function.
CallOfNumber == JCall(N(1), <<JPrint(2)>>)
CallOfPrinted == JCall(JPrint(1), <<JPrint(2)>>)
CallOfValue ==
  JLet(<<"a">>, JSeq(<<JSet(S("a"), N(3)), JCall(JGet(S("a")), <<JPrint(2)>>)>>))
CallOfCell ==
  JLet(<<"f">>, JSeq(<<JSet(S("f"), JFn(<<>>, N(1))), JCall(S("f"), <<JPrint(2)>>)>>))
CallInBody == JCall(JFn(<<"x">>, JCall(JGet(S("x")), <<JPrint(2)>>)), <<N(5)>>)
InvalidCallPrograms ==
  {CallOfNumber, CallOfPrinted, CallOfValue, CallOfCell, CallInBody}

\* Sequences: of nothing, of three expressions, of sequences, with an empty
\* sequence last; and forms to stand alone in a seq.
SeqEmpty == JSeq(<<>>)
SeqThree == JSeq(<<JPrint(1), JPrint(2), N(3)>>)
SeqNested ==
  JSeq(<<JSeq(<<>>), JPrint(1), JSeq(<<JPrint(2)>>), JSeq(<<JPrint(3), N(4)>>)>>)
SeqLastEmpty == JSeq(<<JPrint(1), JSeq(<<>>)>>)
SeqElements ==
  { N(4), JNull, JPrint(1), SeqEmpty, SeqThree, JSeq(<<N(4)>>),
    JFn(<<"x">>, JSeq(<<S("x")>>)),
    JLet(<<"a">>, JSeq(<<JSet(S("a"), N(3)), JGet(S("a"))>>)),
    JCall(JFn(<<"x">>, JGet(S("x"))), <<N(5)>>) }
SequencePrograms ==
  {SeqEmpty, SeqThree, SeqNested, SeqLastEmpty}
    \cup {JSeq(<<element>>) : element \in SeqElements}

\* print n and then the value v.
Printing(n, v) == JSeq(<<JPrint(n), v>>)
JAnd(l, r) == A(<<S("and"), l, r>>)
JOr(l, r) == A(<<S("or"), l, r>>)
\* Conditionals whose operands print a number when they are evaluated.
IfTrue == JIf(Printing(1, JBool(TRUE)), Printing(2, N(7)), Printing(3, N(8)))
IfFalse == JIf(Printing(1, N(0)), Printing(2, N(7)), Printing(3, N(8)))
IfNoElse == A(<<S("if"), Printing(1, JNull), Printing(2, N(7))>>)
IfNoElseTrue == A(<<S("if"), Printing(1, N(5)), Printing(2, N(7))>>)
AndFalsy == JAnd(Printing(1, N(0)), Printing(2, N(7)))
AndTruthy == JAnd(Printing(1, N(5)), Printing(2, N(0)))
OrTruthy == JOr(Printing(1, N(5)), Printing(2, N(7)))
OrFalsy == JOr(Printing(1, JNull), Printing(2, N(0)))
ConditionalPrograms ==
  {IfTrue, IfFalse, IfNoElse, IfNoElseTrue, AndFalsy, AndTruthy, OrTruthy, OrFalsy}

\* Calls of a function of no, one and two parameters with no to three
\* arguments; the body prints every parameter in turn.
ArityParams == {<<>>, <<"p">>, <<"p", "q">>}
ArityArgs == {<<>>, <<11>>, <<11, 12>>, <<11, 12, 13>>}
ArityProgram(params, args) ==
  JCall(JFn(params, JSeq([i \in 1..Len(params) |->
                            JCall(S("print"), <<JGet(S(params[i]))>>)])),
        [i \in 1..Len(args) |-> N(args[i])])
ArityPrograms ==
  {ArityProgram(params, args) : params \in ArityParams, args \in ArityArgs}

JProp(prop, obj) == A(<<S("prop"), S(prop), obj>>)
JInvoke(method, obj, args) == JCall(JGet(JProp(method, obj)), args)
\* let l in (set l (list 1 2); l.set(i, 9); print l.length; l.get(i))
LengthAfterSet(i) ==
  JLet(<<"l">>, JSeq(<<
    JSet(S("l"), JList(<<N(1), N(2)>>)),
    JInvoke("set", JGet(S("l")), <<N(i), N(9)>>),
    JCall(S("print"), <<JGet(JProp("length", JGet(S("l"))))>>),
    JInvoke("get", JGet(S("l")), <<N(i)>>)>>))
ListPrograms ==
  {LengthAfterSet(i) : i \in 0..(MaxList - 1)}
    \cup {JGet(JProp("length", JList(<<N(1), N(2), N(3)>>)))}

JMap(pairs) == A(<<S("map")>> \o [i \in 1..Len(pairs) |-> A(pairs[i])])
\* let m in (set m (map pairs); m.get(key))
MapThenGet(pairs, key) ==
  JLet(<<"m">>, JSeq(<<JSet(S("m"), JMap(pairs)),
                       JInvoke("get", JGet(S("m")), <<key>>)>>))
\* Maps of two pairs whose values print 1 and 2 (and whose keys print 3 and
\* 4) when they are evaluated: with two keys, with one literal as both keys,
\* with one global symbol as both keys, and with two key expressions that
\* give one value; then the value at the second key is read.
MapOfTwoKeys ==
  MapThenGet(<< <<N(5), Printing(1, N(10))>>, <<N(6), Printing(2, N(20))>> >>, N(6))
MapOfOneLiteral ==
  MapThenGet(<< <<N(5), Printing(1, N(10))>>, <<N(5), Printing(2, N(20))>> >>, N(5))
MapOfOneSymbol ==
  MapThenGet(<< <<S("pi"), Printing(1, N(10))>>, <<S("pi"), Printing(2, N(20))>> >>,
             S("pi"))
MapOfOneValue ==
  MapThenGet(<< <<Printing(3, N(5)), Printing(1, N(10))>>,
                <<Printing(4, N(5)), Printing(2, N(20))>> >>, N(5))
\* A map that is changed by its set: m.set(5, 20) after (map [5, 10]).
MapSetThenGet ==
  JLet(<<"m">>, JSeq(<<JSet(S("m"), JMap(<< <<N(5), N(10)>> >>)),
                       JInvoke("set", JGet(S("m")), <<N(5), N(20)>>),
                       JInvoke("get", JGet(S("m")), <<N(5)>>)>>))
MapPrograms ==
  {MapOfTwoKeys, MapOfOneLiteral, MapOfOneSymbol, MapOfOneValue, MapSetThenGet, JMap(<<>>)}

\* Loops whose body raises no Break, no Return and no error.
EndlessLoops ==
  { JLoop(JPrint(1)),
    JLoop(JCall(S("continue"), <<>>)),
    JLoop(JSeq(<<JPrint(1), JCall(S("continue"), <<>>), JPrint(9)>>)),
    JLoop(JIf(JBool(FALSE), JCall(S("break"), <<>>), N(3))),
    JSeq(<<JLoop(N(3)), JPrint(9)>>) }

\* Two Lets one after the other, at the top and in the body of a called
\* function, and two nested Lets; the last one reads its name.
LetsInSequence ==
  JSeq(<<JLet(<<"a">>, JSet(S("a"), N(1))),
         JLet(<<"b">>, JSeq(<<JSet(S("b"), N(2)), JGet(S("b"))>>))>>)
LetsInSequenceInBody ==
  JCall(JFn(<<"p">>, JSeq(<<JLet(<<"a">>, JSet(S("a"), N(1))),
                            JLet(<<"b">>, JGet(S("b")))>>)), <<N(7)>>)
LetsNested ==
  JLet(<<"a">>, JSeq(<<JSet(S("a"), N(1)),
                       JLet(<<"b">>, JSeq(<<JSet(S("b"), N(2)), JGet(S("a"))>>))>>))
LayoutPrograms == {LetsInSequence, LetsInSequenceInBody, LetsNested}

LoopPrograms ==
  {BreakProgram, ContinueProgram, InnerBreakProgram, InnerContinueProgram}

ScenarioPrograms ==
  { JCall(S("+"), <<N(3), N(4)>>),
    JSeq(<<JLet(<<"a">>, JSeq(<<JSet(JRef(S("a")), N(3)), JGet(S("a"))>>))>>),
    JCall(JFn(<<"x">>, JCall(S("+"), <<S("x"), N(1)>>)), <<N(41)>>),
    JCall(JFn(<<"x">>, JCall(S("+"), <<JGet(S("x")), N(1)>>)), <<N(41)>>),
    JLoop(JCall(S("break"), <<N(5)>>)),
    JLoop(JCall(S("break"), <<>>)),
    JCall(S("break"), <<>>),
    Factorial(2),
    CountingLoop,
    JIf(JBool(FALSE), N(3), N(4)),
    JIf(JBool(TRUE), N(3), N(4)),
    A(<<S("if"), JBool(FALSE), N(3)>>),
    A(<<S("or"), N(1), N(2)>>),
    A(<<S("or"), N(0), N(2)>>),
    A(<<S("and"), N(1), N(2)>>),
    A(<<S("and"), N(0), N(2)>>),
    JList(<<N(1), N(2), N(3)>>),
    JList(<<>>),
    JSeq(<<>>),
    A(<<S("str"), S("a")>>),
    JNull,
    S("pi"),
    JCall(N(1), <<N(2)>>),
    JSet(N(1), N(2)),
    JGet(N(1)),
    JLet(<<>>, N(1)),
    JLet(<<"a", "b">>, JSeq(<<JSet(S("b"), N(2)), JGet(S("b"))>>)),
    JCall(JFn(<<"x">>, S("x")), <<>>),
    JCall(JFn(<<"x">>, JGet(S("x"))), <<>>),
    JCall(JFn(<<>>, N(1)), <<N(2), N(3)>>),
    JCall(JFn(<<>>, JSeq(<<JLet(<<"a">>, JSet(S("a"), N(1))), JLet(<<"b">>, JGet(S("b")))>>)), <<>>),
    JLet(<<"a", "a">>, N(1)),
    A(<<S("let"), JNull, N(1)>>),
    A(<<S("fn"), A(<<S("x")>>), N(1)>>),
    A(<<S("get")>>),
    S("nowhere") }

Programs ==
  ContextPrograms \cup CapturePrograms \cup ArgOrderPrograms \cup ScenarioPrograms
    \cup LoopPrograms \cup IfExitPrograms \cup MalformedPrograms
    \cup ParamListPrograms \cup RebindPrograms \cup LexicalPrograms
    \cup CapturedSetPrograms \cup {TwoCounters} \cup SignalPrograms
    \cup UninitializedPrograms \cup InvalidSetPrograms
    \cup InvalidCallPrograms \cup SequencePrograms \cup ConditionalPrograms
    \cup ArityPrograms \cup ListPrograms \cup MapPrograms \cup EndlessLoops
    \cup LayoutPrograms

DefaultEnvironment == Environment(<< <<>> >>)

\* Environments with names already bound in frame 0, and documents that
\* refer to them: compile leaves their references in the free-variable map.
BoundEnvironments == {Environment(<< <<"x">> >>), Environment(<< <<"x", "y">> >>)}
OpenPrograms ==
  { S("x"),
    JGet(S("x")),
    JSeq(<<S("y"), JSet(S("x"), N(1))>>),
    JSeq(<<JPrint(1), JGet(S("x")), S("y")>>),
    JFn(<<>>, JGet(S("x"))),
    JCall(JFn(<<"z">>, S("y")), <<S("x")>>),
    JLet(<<"x">>, JSet(S("x"), N(1))),
    N(1) }

\* An environment with a namespace of the caller, and documents that refer
\* to external names: alone, under a Let, in a function, twice.
HostEnvironment == [stack |-> << <<>> >>, externalSyms |-> hostSyms]
ExternalNames == {"host", "pi", "print", "nowhere"}
Sites == {"top", "let", "fn", "twice"}
Site(site, name) ==
  IF site = "let" THEN JLet(<<"a">>, S(name))
  ELSE IF site = "fn" THEN JFn(<<"x">>, S(name))
  ELSE IF site = "twice" THEN JSeq(<<S(name), S(name)>>)
  ELSE S(name)
\* The same names bound locally, by a Let and by a parameter list.
Shadowed(tag, name) == Binder(tag, Params(<<"a", name>>), S(name))
NamespacePrograms ==
  {Site(site, name) : site \in Sites, name \in ExternalNames}
    \cup {Shadowed(tag, name) : tag \in {"let", "fn"}, name \in ExternalNames}

\* An environment of two frames, as for the body of a function with local a
\* in a scope that binds x and y, and bodies that refer to these names:
\* compile leaves the captures array of frame 0 in sight.
BodyEnvironment == [stack |-> << <<"a">>, <<"x", "y">> >>, externalSyms |-> globals]
BodyPrograms ==
  { S("x"), S("a"),
    JSeq(<<S("x"), S("x")>>),
    JSeq(<<S("x"), S("y"), S("x"), S("a")>>),
    JSeq(<<S("y"), JLet(<<"b">>, JSeq(<<S("x"), S("b"), S("y")>>)), S("x")>>),
    JSeq(<<S("x"), JFn(<<"p">>, JSeq(<<S("a"), S("a"), S("p")>>)), S("x")>>),
    JCall(S("+"), <<JGet(S("y")), JGet(S("y"))>>) }

\* The same references in the body of a function of the document.
CapturingFunction ==
  JLet(<<"x", "y">>,
    JFn(<<"a">>, JSeq(<<S("x"), S("y"), S("x"), S("a"),
                        JLet(<<"b">>, JSeq(<<S("y"), S("b")>>))>>)))

\* Function bodies that refer to the outer x and y: once, twice, in both
\* orders, and one name between two references to the other.
CapturingBodies ==
  { S("x"), JSeq(<<S("x"), S("x")>>), JSeq(<<S("x"), S("y")>>),
    JSeq(<<S("y"), S("x")>>), JSeq(<<S("x"), S("y"), S("x")>>),
    JSeq(<<S("x"), S("x"), S("y")>>), JSeq(<<S("a"), S("y")>>) }
\* Names of intrinsics at the same sites, bound by a Let and by a parameter
\* list, and bound outside a function that refers to them; under the default
\* environment and under one that has the names in frame 0 (+, break), in
\* the frame outside (not, return) and in its namespace (+, not).
IntrinsicSample == {"+", "break", "return", "not"}
OuterBound(name) == JLet(<<name>>, JFn(<<>>, S(name)))
IntrinsicPrograms ==
  {Site(site, name) : site \in Sites, name \in IntrinsicSample}
    \cup {Shadowed(tag, name) : tag \in {"let", "fn"}, name \in IntrinsicSample}
    \cup {OuterBound(name) : name \in IntrinsicSample}
OperatorEnvironment ==
  [stack |-> << <<"+", "break">>, <<"not", "return">> >>, externalSyms |-> operatorSyms]

CapturingFunctionOf(body) == JLet(<<"x", "y">>, JFn(<<"a">>, body))
CapturingFunctions == {CapturingFunctionOf(body) : body \in CapturingBodies}

Inputs ==
  {<<p, DefaultEnvironment>> :
     p \in Programs \cup NamespacePrograms \cup {CapturingFunction} \cup CapturingFunctions}
    \cup {<<p, BodyEnvironment>> : p \in BodyPrograms}
    \cup {<<p, e>> : p \in IntrinsicPrograms, e \in {DefaultEnvironment, OperatorEnvironment}}
    \cup {<<p, e>> : p \in OpenPrograms, e \in BoundEnvironments}
    \cup {<<p, HostEnvironment>> : p \in NamespacePrograms}

InitEvaluator ==
  /\ pc = "init"
  /\ compiled = [err |-> "", msg |-> "", value |-> ArkNull, freeVars |-> <<>>,
                 caps |-> <<>>, heap |-> NamespaceCells(env.externalSyms)]
  /\ ctl = Idle
  /\ kont = <<>>
  /\ mark = <<>>
  /\ stack = InitialStack
  /\ heap = NamespaceCells(env.externalSyms)
  /\ nextFid = 1
  /\ callStack = <<>>
  /\ fnSymStack = <<>>
  /\ out = <<>>

\* The raw host values that are interned here; 0 stands for the undefined
\* that Map.get gives for a raw value with no entry.
RawVals == {JNull, JNum(1)}

InitInterned ==
  /\ intern = [rawVal \in RawVals |-> 0]
  /\ inst = <<>>
  /\ finq = {}

\* Nothing serialized yet.
NotSerialized == [at |-> "none", s |-> JUndefined, c |-> JsUndefined]

Init ==
  /\ \E input \in Inputs : json = input[1] /\ env = input[2]
  /\ InitEvaluator
  /\ InitInterned
  /\ wire = NotSerialized

Next ==
  \/ Compile
  \/ Run
  \/ EvalValue
  \/ EvalRef
  \/ EvalGet
  \/ GetReturn
  \/ EvalSet
  \/ SetRefReturn
  \/ SetValReturn
  \/ EvalLet
  \/ LetReturn
  \/ EvalSequence
  \/ SequenceReturn
  \/ EvalIf
  \/ IfReturn
  \/ EvalAnd
  \/ AndReturn
  \/ EvalOr
  \/ OrReturn
  \/ EvalLoop
  \/ LoopReturn
  \/ LoopCatch
  \/ EvalFn
  \/ EvalListLiteral
  \/ ListLiteralReturn
  \/ EvalMapLiteral
  \/ MapKeyReturn
  \/ MapValReturn
  \/ EvalProperty
  \/ PropertyReturn
  \/ EvalCall
  \/ CallFnReturn
  \/ EvaluateArgsNext
  \/ ArgReturn
  \/ NativeCall
  \/ ListMethodCall
  \/ MapMethodCall
  \/ ClosureCall
  \/ ClosureReturn
  \/ ClosureCatch
  \/ Unwind
  \/ Finish
  \/ Escape

Spec == Init /\ [][Next]_vars

----------------------------------------------------------------------------
\* Interning of concrete values under garbage collection.

\* WeakRef.deref(): the instance, or 0 (undefined) once it was collected.
deref(ref) == IF inst[ref].collected THEN 0 ELSE ref

Live == {i \in 1..Len(inst) : ~inst[i].collected}

\* ConcreteInterned.value(rawVal): the pooled instance when its WeakRef still
\* has a target, else a new instance that replaces the entry and is
\* registered for finalization with rawVal as the held value.
value(rawVal) ==
  /\ LET ref == intern[rawVal] IN
       IF ref = 0 \/ deref(ref) = 0
       THEN /\ Len(inst) < MaxInst
            /\ inst' = Append(inst, [val |-> rawVal, collected |-> FALSE])
            /\ intern' = [intern EXCEPT ![rawVal] = Len(inst) + 1]
       ELSE UNCHANGED <<inst, intern>>
  /\ UNCHANGED finq
  /\ UNCHANGED <<evalVars, wire>>

\* The program drops its last reference to instance i and the collector
\* reclaims it: its WeakRef loses its target and its finalization callback
\* becomes due.
Collect(i) ==
  /\ i \in Live
  /\ inst' = [inst EXCEPT ![i].collected = TRUE]
  /\ finq' = finq \cup {i}
  /\ UNCHANGED intern
  /\ UNCHANGED <<evalVars, wire>>

\* The registry's callback for instance i: (key) => this.intern.delete(key),
\* key being the raw value i was registered with.
Finalize(i) ==
  /\ i \in finq
  /\ intern' = [intern EXCEPT ![inst[i].val] = 0]
  /\ finq' = finq \ {i}
  /\ UNCHANGED inst
  /\ UNCHANGED <<evalVars, wire>>

InitIntern ==
  /\ json = JNull
  /\ env = DefaultEnvironment
  /\ InitEvaluator
  /\ InitInterned
  /\ wire = NotSerialized

NextIntern ==
  \/ \E rawVal \in RawVals : value(rawVal)
  \/ \E i \in 1..Len(inst) : Collect(i)
  \/ \E i \in 1..Len(inst) : Finalize(i)

SpecIntern == InitIntern /\ [][NextIntern]_vars

----------------------------------------------------------------------------
(* The serializer.  doSerialize builds a host value, JSON.stringify writes  *)
(* it and the compiler reads it back.                                       *)

\* val.debug.get('name'): the intrinsics are named by their Namespace, and
\* getIndex names the reference it returns (a stack reference, or the shared
\* reference of a global).  Nothing names a capture reference or the
\* reference that 'ref' builds.
debugName(val) ==
  IF val.t = "NativeFn" /\ val.name \in IntrinsicNames THEN val.name
  ELSE IF val.t = "StackRef" THEN val.name
  ELSE IF val.t = "ValRef" /\ val.id <= Len(GlobalCells)
    THEN CHOOSE name \in DOMAIN globals : globals[name] = val
  ELSE ""

\* Object.prototype.toString
ObjectToString == JStr("[object Object]")

RECURSIVE doSerialize(_, _)
doSerialize(val, hp) ==
  LET each(l) == [i \in 1..Len(l) |-> doSerialize(l[i], hp)]
      names(l) == [i \in 1..Len(l) |-> JStr(l[i])]
  IN
  IF debugName(val) # "" THEN JStr(debugName(val))
  ELSE IF val.t = "Str" THEN JArr(<<JStr("str"), JStr(val.s)>>)
  ELSE IF val.t = "Null" THEN JNull
  ELSE IF val.t = "Bool" THEN JBool(val.b)
  ELSE IF val.t = "Num" THEN JNum(val.n)
  ELSE IF val.t = "ValRef"
    THEN JArr(<<JStr("ref"), doSerialize(hp[val.id], hp)>>)
  ELSE IF val.t = "Get" THEN JArr(<<JStr("get"), doSerialize(val.val, hp)>>)
  ELSE IF val.t = "Fn"
    THEN JArr(<<JStr("fn"), JArr(<<JStr("params")>> \o names(val.params)),
                doSerialize(val.body, hp)>>)
  ELSE IF val.t = "Let"
    THEN JArr(<<JStr("let"), JArr(<<JStr("params")>> \o names(val.boundVars)),
                doSerialize(val.body, hp)>>)
  ELSE IF val.t = "Call"
    THEN JArr(<<doSerialize(val.fn, hp)>> \o each(val.args))
  ELSE IF val.t = "Set"
    THEN JArr(<<JStr("set"), doSerialize(val.ref, hp), doSerialize(val.val, hp)>>)
  ELSE IF val.t = "Property"
    THEN JArr(<<JStr("prop"), val.prop, doSerialize(val.obj, hp)>>)
  ELSE IF val.t = "Sequence" THEN JArr(<<JStr("seq")>> \o each(val.exps))
  ELSE IF val.t = "If"
    THEN JArr(<<JStr("if"), doSerialize(val.cond, hp), doSerialize(val.thenExp, hp),
                IF val.elseExp = JsUndefined THEN JUndefined
                ELSE doSerialize(val.elseExp, hp)>>)
  ELSE IF val.t = "And"
    THEN JArr(<<JStr("and"), doSerialize(val.left, hp), doSerialize(val.right, hp)>>)
  ELSE IF val.t = "Or"
    THEN JArr(<<JStr("or"), doSerialize(val.left, hp), doSerialize(val.right, hp)>>)
  ELSE IF val.t = "Loop" THEN JArr(<<JStr("and"), doSerialize(val.body, hp)>>)
  ELSE IF val.t = "Undefined" THEN JUndefined
  ELSE ObjectToString

\* JSON.parse(JSON.stringify(v)) for v inside an array.
RECURSIVE reparse(_)
reparse(v) ==
  IF v.j = "undefined" THEN JNull
  ELSE IF v.j = "array" THEN JArr([i \in 1..Len(v.a) |-> reparse(v.a[i])])
  ELSE v

\* serializeVal, as the document a reader of its output gets.
serializeVal(val, hp) ==
  LET v == doSerialize(val, hp)
  IN IF v = JUndefined THEN JUndefined ELSE reparse(v)

\* serializeVal on the value that compile returned.
Serialize ==
  /\ pc = "compiled"
  /\ wire.at = "none"
  /\ wire' = [at |-> "serialized", s |-> serializeVal(compiled.value, heap),
              c |-> JsUndefined]
  /\ UNCHANGED <<evalVars, internVars>>

\* compile on the serialized document, in the environment of the first
\* compilation.
Reload ==
  /\ wire.at = "serialized"
  /\ wire.s # JUndefined
  /\ wire' = [wire EXCEPT !.at = "reloaded", !.c = compile(wire.s, env)]
  /\ UNCHANGED <<evalVars, internVars>>

\* The forms of the wire format that the other programs do not use.
WirePrograms ==
  { S("pi"), A(<<S("str"), S("a")>>), JBool(TRUE),
    A(<<S("prop"), S("p"), JList(<<N(1)>>)>>),
    A(<<S("map"), A(<<N(1), N(2)>>)>>),
    JList(<<N(1), A(<<S("str"), S("a")>>)>>),
    JRef(N(1)),
    JSeq(<<N(1)>>),
    JSeq(<<N(1), N(2)>>),
    A(<<S("if"), JBool(TRUE), N(1)>>),
    JIf(JBool(FALSE), N(1), N(2)),
    JIf(JBool(FALSE), N(1), JNull),
    A(<<S("and"), JBool(TRUE), N(1)>>),
    A(<<S("or"), JBool(FALSE), N(1)>>),
    JLoop(JCall(S("break"), <<N(5)>>)),
    JCall(S("+"), <<N(1), N(2)>>),
    JLet(<<"a">>, JSeq(<<JSet(S("a"), N(3)), JGet(S("a"))>>)),
    JLet(<<"a">>, JFn(<<"x">>, JGet(S("a")))) }

InitWire ==
  /\ \E p \in WirePrograms \cup Programs : json = p
  /\ env = DefaultEnvironment
  /\ InitEvaluator
  /\ InitInterned
  /\ wire = NotSerialized

NextWire == Compile \/ Serialize \/ Reload

SpecWire == InitWire /\ [][NextWire]_vars

----------------------------------------------------------------------------
\* The runtime stack across calls, Lets and non-local exits.

FrameIds(stk) == [i \in 1..Len(stk) |-> stk[i].fid]

\* The frame of the innermost closure call in progress; 0 is the bottom frame.
CurrentCall ==
  LET bodies == {i \in 1..Len(kont) : kont[i].k = "Body"} IN
    IF bodies = {} THEN 0
    ELSE kont[CHOOSE i \in bodies : \A k \in bodies : k <= i].fid

\* An exception is about to be caught by the eval method on top.
Caught == pc = "running" /\ ctl.m = "throw" /\ kont # <<>> /\ Catches(Top, ctl.x)

\* C1: when a closure call completes, because its body returned or because
\* the call intercepted a Return raised in the body, the stack has as many
\* frames as just before the call pushed its frame, and frame 0 is the
\* caller's frame again.
CallPreservesStack ==
  [][(ClosureReturn \/ ClosureCatch) =>
       /\ Len(stack') = Len(Last(mark))
       /\ stack' # <<>>
       /\ stack'[1].fid = Last(mark)[1].fid]_vars

\* A call is about to complete by intercepting a Return.
ReturnIntercepted == Caught /\ Top.k = "Body"

\* C2: when a Let returns normally, the stack has as many frames, and frame 0
\* as many locals, as just before the Let pushed its bindings.
LetRestoresStack ==
  [][LetReturn =>
       /\ Len(stack') = Len(Last(mark))
       /\ stack' # <<>>
       /\ Len(stack'[1].locals) = Len(Last(mark)[1].locals)]_vars

\* C3: while run evaluates, the stack has at least one frame and frame 0 is
\* the frame of the innermost closure call in progress, or the bottom frame
\* when no call is in progress.
StackHoldsCurrentFrame ==
  pc = "running" => stack # <<>> /\ stack[1].fid = CurrentCall

\* C4: when a Loop catches a Break or Continue that was raised inside a
\* closure body, every frame pushed by the calls the signal left is popped and
\* the stack has the frames it had when the iteration started.
LoopCatchFramesPopped ==
  (Caught /\ Top.k = "Loop" /\ ctl.via # <<>>) =>
     /\ \A i \in 1..Len(ctl.via) : \A k \in 1..Len(stack) : stack[k].fid # ctl.via[i]
     /\ FrameIds(stack) = FrameIds(Last(mark))

\* C5: when a Loop or a Call catches a signal that left the body of a Let,
\* the frame that Let extended has as many locals as before the Let was
\* entered.
LetCellsRemovedOnExit ==
  Caught =>
    \A i \in 1..Len(ctl.lets) : \A k \in 1..Len(stack) :
       stack[k].fid = ctl.lets[i].fid => Len(stack[k].locals) = ctl.lets[i].n

----------------------------------------------------------------------------
\* Captures, argument order and the results of run.

IsPrefix(s, t) == Len(s) <= Len(t) /\ SubSeq(t, 1, Len(s)) = s

Final == pc \in {"done", "failed"}

CaptureValues == {1, 2}
CaptureCalls == {1, 2}

\* C6: after a closure that captures s was created and s was then written
\* through Set from outside it, every later call of the closure reads the
\* written value of s, whichever form names s in the Set.
CaptureSound ==
  \A form \in CaptureForms : \A v \in CaptureValues : \A calls \in CaptureCalls :
    (json = CaptureProgram(form, v, calls) /\ Final) =>
       /\ pc = "done"
       /\ ctl.v.t = "List"
       /\ heap[ctl.v.id].list = [i \in 1..calls |-> ArkNumber(v)]

\* The same with s named by the bare symbol only.
CaptureSoundBySymbol ==
  \A v \in CaptureValues : \A calls \in CaptureCalls :
    (json = CaptureProgram("sym", v, calls) /\ Final) =>
       /\ pc = "done"
       /\ ctl.v.t = "List"
       /\ heap[ctl.v.id].list = [i \in 1..calls |-> ArkNumber(v)]

\* What the console shows when the function expression and n arguments have
\* been evaluated, each once, from left to right.
Printed(n) == [i \in 1..(n + 1) |-> ArkNumber(i - 1)]

\* C7: in a call with n arguments the function expression is evaluated first,
\* then the arguments once each from left to right, and all of them before
\* the closure body starts or the native function is invoked.
ArgumentsInOrder ==
  \A callee \in ArgOrderCallees : \A n \in 0..3 :
    (json = ArgOrderProgram(callee, n) /\ pc = "running" /\ kont # <<>>) =>
       /\ kont[1].k = "CallFn" => IsPrefix(out, <<ArkNumber(0)>>)
       /\ kont[1].k = "Args" =>
            /\ Len(kont[1].vals) + Len(kont[1].rest) + (IF Len(kont) > 1 \/ ctl.m # "args" THEN 1 ELSE 0) = n
            /\ IsPrefix(out, Printed(n))
            /\ IsPrefix(Printed(Len(kont[1].vals)), out)
            /\ (Len(kont) = 1 /\ ctl.m = "args") => out = Printed(Len(kont[1].vals))
       /\ kont[1].k = "Body" => IsPrefix(Printed(n), out)

\* A closure was called with three arguments and its body has run.
ThreeArgumentsThenBody ==
  /\ json = ArgOrderProgram(JFn(<<"p", "q", "r">>, JPrint(9)), 3)
  /\ pc = "done"
  /\ out = Printed(3) \o <<ArkNumber(9)>>

\* A result that comes from a binding never set: the Undefined sentinel, or
\* the cell of the binding still holding it.
Uninitialised(v) ==
  \/ v = ArkUndefined
  \/ v.t = "ValRef" /\ heap[v.id] = ArkUndefined

UnsetReads ==
  { JLet(<<"a">>, JGet(S("a"))), JCall(JFn(<<"x">>, JGet(S("x"))), <<>>) }

UndefinedSymbolsBeforeEvaluation ==
  (pc \notin {"init", "compile_error", "compiled"} /\ Len(compiled.freeVars) # 0) =>
     /\ pc = "failed"
     /\ ctl.m = "throw"
     /\ ctl.x.x = "ArkRuntimeError"
     /\ ctl.x.message = "Undefined symbols"
     /\ ctl.x.names = FVNames(compiled.freeVars)
     /\ \A name \in {"x", "y"} : FVHas(compiled.freeVars, name) => name \in Range(ctl.x.names)
     /\ stack = InitialStack
     /\ heap = compiled.heap
     /\ kont = <<>>
     /\ out = <<>>

\* run has failed on a record whose map names two symbols.
TwoUndefinedSymbols ==
  pc = "failed" /\ Len(compiled.freeVars) = 2 /\ compiled.value.t = "Sequence"

\* C10: two wrapped instances of one raw value that are alive at the same
\* time are the same instance, whatever the order of constructor calls,
\* collections and finalization callbacks.
InternedUnique ==
  \A i \in Live : \A k \in Live : inst[i].val = inst[k].val => i = k

\* A finalization callback is due for a dead instance while the pool entry of
\* its raw value belongs to a live one.
StaleFinalizationDue ==
  \E i \in finq : intern[inst[i].val] \in Live

\* The document up to what the round trip may change: a seq of one
\* expression is that expression, and an if without else is the if whose
\* else is null.
RECURSIVE Normalise(_)
Normalise(v) ==
  IF v.j # "array" THEN v
  ELSE LET a == [i \in 1..Len(v.a) |-> Normalise(v.a[i])]
       IN IF Len(a) = 2 /\ IsTag(a[1], "seq") THEN a[2]
          ELSE IF Len(a) = 3 /\ IsTag(a[1], "if") THEN JArr(Append(a, JNull))
          ELSE JArr(a)

\* C11: serializing the compiled value of a wire-format document gives the
\* document again, up to single-element seq flattening and else omission,
\* and that output compiles.
SerializeRoundTrip ==
  /\ wire.at # "none" => Normalise(wire.s) = Normalise(json)
  /\ wire.at = "reloaded" => wire.c.err = ""

\* A loop has been serialized and its output compiled again.
LoopReloaded ==
  /\ wire.at = "reloaded"
  /\ json = JLoop(JCall(S("break"), <<N(5)>>))


\* let a in (set (ref a) 3; get a), inside a seq.
SetThenGetProgram ==
  JSeq(<<JLet(<<"a">>, JSeq(<<JSet(JRef(S("a")), N(3)), JGet(S("a"))>>))>>)

\* C12: a bound name stays a cell through every Set (each slot of each
\* frame holds a reference), and Get after Set on the reference to a
\* Let-bound name yields the value set: the program above ends with 3.
SetThenGet ==
  /\ \A f \in 1..Len(stack) : \A i \in 1..Len(stack[f].locals) :
       stack[f].locals[i].t = "ValRef"
  /\ (json = SetThenGetProgram /\ Final) => (pc = "done" /\ ctl.v = ArkNumber(3))

\* The Set through ["ref","a"] has returned and the run is over.
SetThroughRefDone == json = SetThenGetProgram /\ Final


\* (fn (x) x + 1)(41), the parameter read as a bare symbol.
IncrementProgram ==
  JCall(JFn(<<"x">>, JCall(S("+"), <<S("x"), N(1)>>)), <<N(41)>>)

\* C13: a bare reference to a parameter, as an operand of an intrinsic, is
\* the argument value: calling fn(x) x+1 with 41 yields 42.
ParameterIsArgumentValue ==
  (json = IncrementProgram /\ Final) => (pc = "done" /\ ctl.v = ArkNumber(42))

\* The call of fn(x) x+1 with 41 has returned.
IncrementDone == json = IncrementProgram /\ Final


\* What a finished run returned and what it printed on the way.
Yields(v, printed) ==
  /\ pc = "done"
  /\ ctl.v = v
  /\ out = [i \in 1..Len(printed) |-> ArkNumber(printed[i])]

\* C14: a Loop evaluates its body again and again; a Break that reaches it
\* ends it with the payload (Null without argument) and nothing after the
\* break is evaluated; a Continue starts the body again; both are caught by
\* the innermost Loop.
LoopSemantics ==
  /\ (json = BreakProgram /\ Final) => Yields(ArkNumber(5), <<1>>)
  /\ (json = JLoop(JCall(S("break"), <<>>)) /\ Final) => Yields(ArkNull, <<>>)
  /\ (json = CountingLoop /\ Final) => Yields(ArkNumber(2), <<>>)
  /\ (json = ContinueProgram /\ Final) => Yields(ArkNumber(2), <<1, 2>>)
  /\ (json = InnerBreakProgram /\ Final) => Yields(ArkNumber(2), <<1>>)
  /\ (json = InnerContinueProgram /\ Final) => Yields(ArkNumber(2), <<1, 2>>)
  /\ json \in LoopPrograms => \A i \in 1..Len(out) : out[i] \in {ArkNumber(1), ArkNumber(2)}

\* A loop went round after a Continue and then ended by Break.
ContinuedThenBroken == json = ContinueProgram /\ pc = "done" /\ Len(out) = 2


\* The documents that hold leaf under Lets, closure calls and Sequences, and
\* under no Loop.
RECURSIVE Loopless(_, _)
Loopless(leaf, depth) ==
  IF depth = 0 THEN {leaf}
  ELSE Loopless(leaf, depth - 1)
         \cup {Wrap(w, j) : w \in {"let", "call", "seq"}, j \in Loopless(leaf, depth - 1)}

\* run threw x.
Fails(x) == pc = "failed" /\ ctl.m = "throw" /\ ctl.x = x

\* C15: a Break or Continue with no Loop around it leaves every Sequence,
\* Let, If and closure call and then run, as a failure that carries the
\* signal; the payload of a break without argument is Null.
ExitWithoutLoopEscapes ==
  /\ (json \in Loopless(JCall(S("break"), <<N(5)>>), MaxNest) /\ Final)
       => Fails(ArkBreakException(ArkNumber(5)))
  /\ (json \in Loopless(JCall(S("continue"), <<>>), MaxNest) /\ Final)
       => Fails(ArkContinueException)
  /\ (json = JCall(S("break"), <<>>) /\ Final) => Fails(ArkBreakException(ArkNull))
  /\ (json \in IfExitPrograms /\ Final) =>
       \/ Fails(ArkBreakException(ArkNull))
       \/ Fails(ArkContinueException) /\ json = JIf(JBool(FALSE), N(1), JCall(S("continue"), <<>>))
  /\ json \in IfExitPrograms => \A i \in 1..Len(out) : out[i] = ArkNumber(1)

\* A Break left a Sequence, an If, a closure call and a Let, and then run.
BreakLeftEveryForm ==
  /\ json \in IfExitPrograms /\ Len(out) = 1
  /\ Fails(ArkBreakException(ArkNull))


\* compile threw a CompilerError and returned no expression.
CompilerErrorThrown ==
  /\ pc = "compile_error"
  /\ compiled.err = "CompilerError"
  /\ compiled.value = JsUndefined

\* C16: a form with a tag of fixed arity and another number of elements, and
\* a map with a pair that has not two elements, make compile throw a
\* CompilerError, wherever the form stands; nothing is compiled from it.
FixedArityChecked ==
  (json \in MalformedPrograms /\ pc # "init") => CompilerErrorThrown

\* The same for the forms other than map: the length test of each case of
\* doCompile.
TaggedFormArityChecked ==
  \A place \in Places : \A j \in MalformedForms :
    (json = Place(place, j) /\ pc # "init") =>
      /\ CompilerErrorThrown
      /\ \E tag \in FixedTags :
           j.a[1] = S(tag) /\ compiled.msg = "Invalid '" \o tag \o "'"

\* compile has been applied to a map with a pair of three elements.
BadPairCompiled ==
  /\ json = A(<<S("map"), A(<<N(1), N(2)>>), A(<<N(1), N(2), N(3)>>)>>)
  /\ pc # "init"


\* The messages of arkParamList and checkParamList.
ParamListMessages ==
  {"Invalid parameter list", "Bad type in list", "Duplicate parameters in list"}

\* C17: a let or fn whose parameter list is not an array of "params" and
\* distinct strings makes compile throw a CompilerError of the parameter
\* list, before anything of the body is compiled (no message of the body,
\* no cell made for it).
ParamListChecked ==
  \A place \in {"top", "seq", "arg"} : \A tag \in {"let", "fn"} :
    \A params \in BadParamLists : \A body \in Bodies :
      (json = Place(place, Binder(tag, params, body)) /\ pc # "init") =>
        /\ CompilerErrorThrown
        /\ compiled.msg \in ParamListMessages
        /\ compiled.heap = GlobalCells

\* The lists that are accepted: with a body that compiles, so does the form.
GoodParamListAccepted ==
  \A place \in {"top", "seq", "arg"} : \A tag \in {"let", "fn"} :
    \A params \in GoodParamLists :
      (json = Place(place, Binder(tag, params, N(1))) /\ pc # "init") =>
        pc # "compile_error"

\* compile has been applied to a let whose parameter list is null.
NullParamListCompiled == json = Binder("let", JNull, N(1)) /\ pc # "init"


\* What compile makes of a site when the name compiles to ref.
SiteOf(site, ref) ==
  IF site = "let" THEN ArkLet(<<"a">>, ref)
  ELSE IF site = "fn" THEN ArkFn(<<"x">>, <<>>, ref)
  ELSE IF site = "twice" THEN ArkSequence(<<ref, ref>>)
  ELSE ref

\* C18: a name bound in no frame compiles to the reference that the
\* external namespace given to compile holds for it, the same at every
\* site, and to CompilerError 'Undefined symbol s' when the namespace has
\* no such name; a local binding of the name comes first.
ExternalFallback ==
  /\ \A site \in Sites : \A name \in ExternalNames :
       (json = Site(site, name) /\ pc # "init") =>
         IF name \in DOMAIN env.externalSyms
         THEN /\ compiled.err = ""
              /\ compiled.value = SiteOf(site, env.externalSyms[name])
              /\ compiled.freeVars = <<>>
         ELSE /\ CompilerErrorThrown
              /\ compiled.msg = "Undefined symbol " \o name
  /\ \A tag \in {"let", "fn"} : \A name \in ExternalNames :
       (json = Shadowed(tag, name) /\ pc # "init") =>
         /\ compiled.err = ""
         /\ compiled.value.body = ArkStackRef(0, 1, name)

\* The same under the default namespace only: globals.
GlobalFallback == env.externalSyms = globals => ExternalFallback

\* compile was given the caller's namespace and a Let that refers to host.
HostNameUnderLet ==
  /\ env = HostEnvironment
  /\ json = Site("let", "host")
  /\ pc # "init"


\* compile returned this expression.
Compiles(exp) == pc # "compile_error" /\ compiled.err = "" /\ compiled.value = exp

\* C19: every reference to a name compiles to its innermost binding, the
\* last occurrence of the name in the locals of the topmost frame that has
\* it; in a function body too, and also for a name that an inner Let binds
\* again after the function has captured the outer binding of that name.
InnermostBinding ==
  /\ (json = LetInLet /\ pc # "init") =>
       Compiles(ArkLet(<<"x">>, ArkLet(<<"y", "x">>, ArkStackRef(0, 2, "x"))))
  /\ (json = ParamOverLet /\ pc # "init") =>
       Compiles(ArkLet(<<"x">>, ArkFn(<<"x">>, <<>>, ArkStackRef(0, 0, "x"))))
  /\ (json = RebindBeforeCapture /\ pc # "init") =>
       Compiles(ArkLet(<<"x">>,
         ArkFn(<<>>, <<ArkStackRef(1, 0, "x")>>,
           ArkSequence(<<ArkLet(<<"x">>, ArkStackRef(0, 0, "x")), ArkCaptureRef(0)>>))))
  /\ (json = RebindAfterCapture /\ pc # "init") =>
       Compiles(ArkLet(<<"x">>,
         ArkFn(<<>>, <<ArkStackRef(1, 0, "x")>>,
           ArkSequence(<<ArkCaptureRef(0), ArkLet(<<"x">>, ArkStackRef(0, 0, "x"))>>))))

\* compile has been applied to the function that captures x and then binds
\* x again.
RebindAfterCaptureCompiled == json = RebindAfterCapture /\ pc # "init"


\* The references of an expression, in the order in which compile made them;
\* a function counts for nothing here: its body has a captures array of its
\* own.
RECURSIVE Refs(_)
RECURSIVE RefsOfAll(_)
RefsOfAll(exps) == IF exps = <<>> THEN <<>> ELSE Refs(Head(exps)) \o RefsOfAll(Tail(exps))
Refs(exp) ==
  IF exp.t \in {"StackRef", "CaptureRef"} THEN <<exp>>
  ELSE IF exp.t = "Get" THEN Refs(exp.val)
  ELSE IF exp.t = "Let" THEN Refs(exp.body)
  ELSE IF exp.t = "Sequence" THEN RefsOfAll(exp.exps)
  ELSE IF exp.t = "Call" THEN Refs(exp.fn) \o RefsOfAll(exp.args)
  ELSE <<>>

\* The names that the body refers to, in the same order.
RECURSIVE Names(_)
RECURSIVE NamesOfAll(_)
NamesOfAll(docs) == IF docs = <<>> THEN <<>> ELSE Names(Head(docs)) \o NamesOfAll(Tail(docs))
Names(doc) ==
  IF doc.j = "string" THEN (IF doc.s \in IntrinsicNames THEN <<>> ELSE <<doc.s>>)
  ELSE IF doc.j # "array" THEN <<>>
  ELSE IF IsTag(doc.a[1], "fn") THEN <<>>
  ELSE IF IsTag(doc.a[1], "let") THEN Names(doc.a[3])
  ELSE NamesOfAll(Tail(doc.a))

\* C20: in a function body a reference to a name of an outer frame is
\* CaptureRef(k), k the place of the name in the captures list of the body;
\* the list has no name twice, so every reference to one outer name has the
\* same k; a reference to a name of frame 0 that has no capture entry remains
\* a StackRef of level 0.
CaptureRewrite ==
  /\ pc # "init" => ~HasDuplicates(compiled.caps)
  /\ (env = BodyEnvironment /\ pc # "init") =>
       /\ compiled.err = ""
       /\ Len(Refs(compiled.value)) = Len(Names(json))
       /\ \A i \in 1..Len(Names(json)) :
            LET name == Names(json)[i]
                ref == Refs(compiled.value)[i]
            IN IF name \in {"x", "y"}
               THEN /\ ref.t = "CaptureRef"
                    /\ ref.index < Len(compiled.caps)
                    /\ compiled.caps[ref.index + 1] = name
               ELSE /\ ref.t = "StackRef" /\ ref.level = 0 /\ ref.name = name
                    /\ name \notin Range(compiled.caps)
  /\ (json = CapturingFunction /\ pc # "init") =>
       /\ compiled.err = ""
       /\ compiled.value.body.body =
            ArkSequence(<<ArkCaptureRef(0), ArkCaptureRef(1), ArkCaptureRef(0),
                          ArkStackRef(0, 0, "a"),
                          ArkLet(<<"b">>, ArkSequence(<<ArkCaptureRef(1),
                                                        ArkStackRef(0, 1, "b")>>))>>)

\* A body that refers to x, to y, to x again and to its own a is compiled:
\* two capture entries for three references.
TwoNamesCaptured ==
  /\ env = BodyEnvironment
  /\ json = JSeq(<<S("x"), S("y"), S("x"), S("a")>>)
  /\ pc # "init"
  /\ compiled.caps = <<"x", "y">>


\* The names in s, each once, in the order of their first occurrence.
RECURSIVE Distinct(_)
Distinct(s) ==
  IF s = <<>> THEN <<>>
  ELSE LET front == Distinct(Front(s))
       IN IF Last(s) \in Range(front) THEN front ELSE Append(front, Last(s))

\* C21: the addresses that a compiled Fn holds are one per captured name, in
\* the order in which the names first appear in the body, so that the
\* address at k is the address of the name that CaptureRef(k) was compiled
\* from.
CaptureAligned ==
  \A body \in CapturingBodies :
    (json = CapturingFunctionOf(body) /\ pc # "init") =>
      LET fn == compiled.value.body
          names == Names(body)
          refs == Refs(fn.body)
          captured == Distinct(SelectSeq(names, LAMBDA name : name \in {"x", "y"}))
      IN /\ compiled.err = ""
         /\ Len(fn.boundFreeVars) = Len(captured)
         /\ \A i \in 1..Len(refs) :
              refs[i].t = "CaptureRef" =>
                /\ refs[i].index < Len(fn.boundFreeVars)
                /\ fn.boundFreeVars[refs[i].index + 1]
                     = ArkStackRef(1, IF names[i] = "x" THEN 0 ELSE 1, names[i])

\* A function that refers to x, to y and to x again has been compiled.
NameBetweenTwoReferences ==
  /\ json = CapturingFunctionOf(JSeq(<<S("x"), S("y"), S("x")>>))
  /\ pc # "init"


\* C22: a closure reads the variable bound one or more function levels
\* outward in the activation in which the closure chain was made, whatever
\* frames are on the stack when the Fn is evaluated and when the closure is
\* called, and after the enclosing functions have returned: each of these
\* programs reads the x that was bound to 5.
LexicalAddressing ==
  (json \in LexicalPrograms /\ Final) => Yields(ArkNumber(5), <<>>)

\* One level outward only.
LexicalAddressingOneLevel ==
  (json \in {ReadOutward(1), ReadOutwardInCall(1), CalledDeeper} /\ Final)
    => Yields(ArkNumber(5), <<>>)

\* The read two function levels outward, inside a call, is over.
TwoLevelsOutwardDone == json = ReadOutwardInCall(2) /\ Final


\* C23: a Set of a captured name inside a closure writes the cell of the
\* binding: the enclosing scope, another closure that captured the binding
\* and the next call of the same closure read the value set.
CapturedSetShared ==
  \A reader \in Readers : \A form \in CaptureForms :
    (json = CapturedSetProgram(reader, form) /\ Final) => Yields(ArkNumber(2), <<>>)

\* The same when the Set names the variable by the bare symbol.
CapturedSetSharedBySymbol ==
  \A reader \in Readers :
    (json = CapturedSetProgram(reader, "sym") /\ Final) => Yields(ArkNumber(2), <<>>)

\* A closure has set the captured x through ["ref","x"] and the enclosing
\* scope has read x.
CapturedSetThroughRefDone == json = CapturedSetProgram("scope", "ref") /\ Final


\* C24: every evaluation of an Fn makes a closure with the cells of the
\* activation in which it is evaluated: the counters of two calls of mk
\* count apart, and the two calls of one counter count on (11, 12, then 21).
FreshClosurePerEvaluation ==
  /\ (json = TwoCounters /\ Final) => Yields(ArkNull, <<11, 12, 21>>)
  /\ json = TwoCounters =>
       IsPrefix(out, <<ArkNumber(11), ArkNumber(12), ArkNumber(21)>>)

\* Both counters have been called.
BothCountersCalled == json = TwoCounters /\ pc = "done" /\ Len(out) = 3


\* C25: a Return is caught by the innermost closure call in progress, not by
\* a Loop, Let or Sequence on its way, and its payload is the result of that
\* call; a Break or Continue is not caught by a closure call and reaches
\* the Loop around the call.
SignalDiscipline ==
  /\ (json = ReturnThroughLoop /\ Final) => Yields(ArkNull, <<6>>)
  /\ (json = ReturnFromInner /\ Final) => Yields(ArkNumber(2), <<1>>)
  /\ (json = BreakThroughCall /\ Final) => Yields(ArkNumber(5), <<1>>)
  /\ json = ContinueThroughCall => pc \notin {"done", "failed"}
  /\ json \in SignalPrograms =>
       \A i \in 1..Len(out) : out[i] \in {ArkNumber(1), ArkNumber(6)}

\* The loop went round again after a Continue raised in a called closure.
ContinuedThroughCall == json = ContinueThroughCall /\ Len(out) = 2


\* C26: a symbol that is the name of an intrinsic compiles to that intrinsic
\* at every site and in every environment, also where a Let or a parameter of
\* that name is in scope, in frame 0 or outside, and where the namespace has
\* the name; the reference adds nothing to the free-variable map or to the
\* captures array.
IntrinsicShortcut ==
  \A name \in IntrinsicSample :
    LET fn == intrinsics(name)
        asIs == /\ compiled.err = ""
                /\ compiled.freeVars = <<>>
                /\ compiled.caps = <<>>
    IN pc # "init" =>
         /\ \A site \in Sites :
              json = Site(site, name) =>
                asIs /\ compiled.value = SiteOf(site, fn)
         /\ \A tag \in {"let", "fn"} :
              json = Shadowed(tag, name) => asIs /\ compiled.value.body = fn
         /\ json = OuterBound(name) =>
              asIs /\ compiled.value = ArkLet(<<name>>, ArkFn(<<>>, <<>>, fn))

\* compile was given a function that refers to not, where the frame outside
\* and the namespace have that name.
IntrinsicUnderBinding ==
  /\ env = OperatorEnvironment
  /\ json = Site("fn", "not")
  /\ pc # "init"


\* run ended with the runtime error 'Uninitialized symbol' for this name,
\* after printing these numbers.
Uninitialized(name, printed) ==
  /\ Fails(ArkRuntimeError("Uninitialized symbol", <<name>>))
  /\ out = [i \in 1..Len(printed) |-> ArkNumber(printed[i])]

InvalidAssignment(printed, cells) ==
  /\ Fails(ArkRuntimeError("Invalid assignment", <<>>))
  /\ out = [i \in 1..Len(printed) |-> ArkNumber(printed[i])]
  /\ heap = compiled.heap \o cells
  /\ Len(stack) = 1
  /\ stack[1].locals = [i \in 1..Len(cells) |-> ArkValRef(Len(compiled.heap) + i)]

\* C28: a Set whose left operand does not evaluate to a reference fails with
\* 'Invalid assignment' and writes nothing; the left operand is evaluated
\* first, then the right operand, then the check is made, so that a failure
\* of the right operand comes before it.
InvalidAssignmentChecked ==
  /\ (json = SetOfPrint /\ Final) => InvalidAssignment(<<1, 2>>, <<>>)
  /\ (json = SetOfNumber /\ Final) => InvalidAssignment(<<2>>, <<>>)
  /\ (json = SetOfValue /\ Final) => InvalidAssignment(<<>>, <<ArkNumber(1)>>)
  /\ (json = SetOfGlobal /\ Final) => InvalidAssignment(<<>>, <<>>)
  /\ (json = SetOfValueFailing /\ Final) => Uninitialized("b", <<>>)

\* Both operands of a Set were evaluated and its left operand was no
\* reference.
BothOperandsEvaluated == json = SetOfPrint /\ pc = "failed" /\ Len(out) = 2


\* run ended with the runtime error 'Invalid call' after printing these
\* numbers, with frames that have this many locals, innermost first, and
\* with this many calls under way.
InvalidCall(printed, locals, calls) ==
  /\ Fails(ArkRuntimeError("Invalid call", <<>>))
  /\ out = [i \in 1..Len(printed) |-> ArkNumber(printed[i])]
  /\ [i \in 1..Len(stack) |-> Len(stack[i].locals)] = locals
  /\ Len(callStack) = calls

\* C29: a Call whose function expression gives neither a closure nor a
\* native function fails with 'Invalid call'; no argument is evaluated and
\* no frame is pushed, the stack is as it was before the Call.
InvalidCallChecked ==
  /\ (json = CallOfNumber /\ Final) => InvalidCall(<<>>, <<0>>, 0)
  /\ (json = CallOfPrinted /\ Final) => InvalidCall(<<1>>, <<0>>, 0)
  /\ (json = CallOfValue /\ Final) => InvalidCall(<<>>, <<1>>, 0)
  /\ (json = CallOfCell /\ Final) => InvalidCall(<<>>, <<1>>, 0)
  /\ (json = CallInBody /\ Final) => InvalidCall(<<>>, <<1, 0>>, 1)
  /\ json \in InvalidCallPrograms =>
       /\ pc \in {"init", "compiled", "running", "failed"}
       /\ \A i \in 1..Len(out) : out[i] # ArkNumber(2)

\* The function expression printed 1 and its value was called.
CallOfPrintedFailed == json = CallOfPrinted /\ pc = "failed" /\ Len(out) = 1


\* C30: a Sequence evaluates its expressions once each, in the order in
\* which they are written, and returns the value of the last, Null when it
\* has none; a seq form of one element compiles to what the element alone
\* compiles to.
SequenceSemantics ==
  /\ (json = SeqEmpty /\ Final) => Yields(ArkNull, <<>>)
  /\ (json = SeqThree /\ Final) => Yields(ArkNumber(3), <<1, 2>>)
  /\ (json = SeqNested /\ Final) => Yields(ArkNumber(4), <<1, 2, 3>>)
  /\ (json = SeqLastEmpty /\ Final) => Yields(ArkNull, <<1>>)
  /\ (json = JSeq(<<SeqThree>>) /\ Final) => Yields(ArkNumber(3), <<1, 2>>)
  /\ \A element \in SeqElements :
       (json = JSeq(<<element>>) /\ pc # "init") => compiled = compile(element, env)
  /\ (json = JSeq(<<N(4)>>) /\ pc # "init") => compiled.value = ArkNumber(4)
  /\ (json = JSeq(<<JSeq(<<N(4)>>)>>) /\ pc # "init") => compiled.value = ArkNumber(4)
  /\ (json = JSeq(<<SeqEmpty>>) /\ pc # "init") => compiled.value = ArkSequence(<<>>)

\* The sequence of sequences has returned.
NestedSequenceDone == json = SeqNested /\ pc = "done" /\ Len(out) = 3


\* C31: If evaluates its condition once and then one branch, and gives Null
\* when the condition is false and there is no else; And gives the left
\* value without evaluating the right operand when the left is falsy, else
\* the right value; Or gives the left value without evaluating the right
\* operand when the left is truthy, else the right value.
ShortCircuit ==
  /\ (json = IfTrue /\ Final) => Yields(ArkNumber(7), <<1, 2>>)
  /\ (json = IfFalse /\ Final) => Yields(ArkNumber(8), <<1, 3>>)
  /\ (json = IfNoElse /\ Final) => Yields(ArkNull, <<1>>)
  /\ (json = IfNoElseTrue /\ Final) => Yields(ArkNumber(7), <<1, 2>>)
  /\ (json = AndFalsy /\ Final) => Yields(ArkNumber(0), <<1>>)
  /\ (json = AndTruthy /\ Final) => Yields(ArkNumber(0), <<1, 2>>)
  /\ (json = OrTruthy /\ Final) => Yields(ArkNumber(5), <<1>>)
  /\ (json = OrFalsy /\ Final) => Yields(ArkNumber(0), <<1, 2>>)

\* An And has returned its falsy left value.
AndLeftReturned == json = AndFalsy /\ pc = "done" /\ Len(out) = 1


\* The frame of a call with these parameters and arguments: a new cell for
\* every parameter, with its argument or Undefined, and after them one cell
\* with the list of the arguments left over, when there are any.
BoundFrame(frame, params, args) ==
  LET n == Len(params)
      m == Len(args)
      id(i) == frame.locals[i].id
  IN /\ Len(frame.locals) = IF m > n THEN n + 1 ELSE n
     /\ \A i \in 1..Len(frame.locals) :
          /\ frame.locals[i].t = "ValRef"
          /\ id(i) > Len(compiled.heap)
          /\ \A k \in 1..Len(frame.locals) : id(i) = id(k) => i = k
     /\ \A i \in 1..n :
          heap[id(i)] = IF i <= m THEN ArkNumber(args[i]) ELSE ArkUndefined
     /\ m > n =>
          /\ heap[id(n + 1)].t = "List"
          /\ heap[heap[id(n + 1)].id].list = [i \in 1..(m - n) |-> ArkNumber(args[n + i])]

\* C32: a closure call with n parameters and m argument values pushes a frame
\* of n new cells, cell i with value i or with Undefined when i > m, and then
\* one cell with the list of the values after the n-th when m > n; every
\* parameter is read in its own slot.
ArgumentBinding ==
  \A params \in ArityParams : \A args \in ArityArgs :
    json = ArityProgram(params, args) =>
      LET n == Len(params)
          m == Len(args)
          read == IF m < n THEN m ELSE n
      IN /\ (pc = "running" /\ Len(stack) = 2) => BoundFrame(stack[1], params, args)
         /\ Final =>
              /\ out = [i \in 1..read |-> ArkNumber(args[i])]
              /\ IF m < n
                 THEN Fails(ArkRuntimeError("Uninitialized symbol", <<params[m + 1]>>))
                 ELSE pc = "done"

\* A function of one parameter was called with three arguments and has
\* returned.
ExtraArgumentsBound ==
  json = ArityProgram(<<"p">>, <<11, 12, 13>>) /\ pc = "done" /\ Len(out) = 1


\* C33: a read of the length of a list gives the number of elements that the
\* list has at that time, after a set at an index inside the list and after
\* a set at or beyond its length.
LengthIsCurrent ==
  /\ \A i \in 0..(MaxList - 1) :
       (json = LengthAfterSet(i) /\ Final) =>
          Yields(ArkNumber(9), <<IF i + 1 > 2 THEN i + 1 ELSE 2>>)
  /\ (json = JGet(JProp("length", JList(<<N(1), N(2), N(3)>>))) /\ Final) =>
       Yields(ArkNumber(3), <<>>)

\* The length of a list never set, and after a set inside the list.
LengthOfUnextendedList ==
  /\ \A i \in 0..1 :
       (json = LengthAfterSet(i) /\ Final) => Yields(ArkNumber(9), <<2>>)
  /\ (json = JGet(JProp("length", JList(<<N(1), N(2), N(3)>>))) /\ Final) =>
       Yields(ArkNumber(3), <<>>)

\* The length was read after a set at the length of the list.
SetAtLengthDone == json = LengthAfterSet(2) /\ pc = "done" /\ Len(out) = 1


\* C34: every key and every value of a map form is evaluated once, in the
\* order k1, v1, k2, v2, also when two pairs have one literal or one symbol
\* as key; the Map holds for every key the value of the last pair with it.
MapPairsEvaluatedInOrder ==
  /\ (json = MapOfTwoKeys /\ Final) => Yields(ArkNumber(20), <<1, 2>>)
  /\ (json = MapOfOneValue /\ Final) => Yields(ArkNumber(20), <<3, 1, 4, 2>>)
  /\ (json = MapOfOneLiteral /\ Final) => Yields(ArkNumber(20), <<1, 2>>)
  /\ (json = MapOfOneSymbol /\ Final) => Yields(ArkNumber(20), <<1, 2>>)

\* The same for maps whose key expressions are different objects for compile.
MapPairsOfDistinctKeyExpressions ==
  /\ (json = MapOfTwoKeys /\ Final) => Yields(ArkNumber(20), <<1, 2>>)
  /\ (json = MapOfOneValue /\ Final) => Yields(ArkNumber(20), <<3, 1, 4, 2>>)
  /\ (json = MapSetThenGet /\ Final) => Yields(ArkNumber(20), <<>>)

\* The map with one literal as both keys was made and read.
OneLiteralTwiceDone == json = MapOfOneLiteral /\ pc = "done"


\* The evaluation of a Loop ends in this step.
LoopLeft == kont # <<>> /\ Top.k = "Loop" /\ Len(kont') < Len(kont)

\* C35: a Loop returns only when a Break reaches it, with the payload of the
\* Break; otherwise it is left only by an exception that goes on, never by
\* itself after an iteration that returned.  A program that is a loop whose
\* body raises no Break, no Return and no error never ends.
LoopEndsOnlyByBreak ==
  /\ [](json \in EndlessLoops =>
          /\ pc \notin {"done", "failed"}
          /\ \A i \in 1..Len(out) : out[i] = ArkNumber(1))
  /\ [][LoopLeft =>
          /\ ctl.m = "throw"
          /\ IF ctl.x.x = "ArkBreakException"
             THEN ctl' = Ret(ctl.x.val)
             ELSE ctl'.m = "throw" /\ ctl'.x = ctl.x /\ ctl.x.x # "ArkContinueException"]_vars

\* The body of a loop has returned three times and the loop goes on.
ThreeIterationsDone ==
  json = JLoop(JPrint(1)) /\ Len(out) = 3 /\ pc = "running" /\ Len(kont) = 1


\* C36: when a StackRef or CaptureRef that compile made under the default
\* environment is evaluated, the frame that it addresses exists and has that
\* slot, and the slot is the cell of the binding: Lets one after the other
\* and nested Lets read their own names.
LayoutsAgree ==
  /\ (env = DefaultEnvironment /\ Running("eval") /\ ctl.e.t = "StackRef") =>
       /\ ctl.e.level < Len(stack)
       /\ ctl.e.index < Len(stack[ctl.e.level + 1].locals)
  /\ (env = DefaultEnvironment /\ Running("eval") /\ ctl.e.t = "CaptureRef") =>
       /\ stack # <<>>
       /\ ctl.e.index < Len(stack[1].captures)
  /\ (json = LetsInSequence /\ Final) => Yields(ArkNumber(2), <<>>)
  /\ (json = LetsInSequenceInBody /\ Final) => Uninitialized("b", <<>>)
  /\ (json = LetsNested /\ Final) => Yields(ArkNumber(1), <<>>)

\* Nested Lets read their own names.
NestedLetsAgree == (json = LetsNested /\ Final) => Yields(ArkNumber(1), <<>>)

\* The second of two Lets was evaluated after the first had returned.
SecondLetEntered ==
  /\ json = LetsInSequence
  /\ Final

\* C37: when run has ended, with a value or with an error, the stack is the
\* one that run started with: one frame that has no locals, so that a second
\* run of the same state starts from a fresh stack.
RunRestoresStack ==
  (pc \in {"done", "failed"} /\ compiled.err = "" /\ compiled.freeVars = <<>>) =>
    /\ Len(stack) = 1
    /\ stack[1].locals = <<>>

\* A run that evaluates no Let and calls no closure ends with the stack that
\* it started with.
RunWithoutFramesRestoresStack ==
  (pc \in {"done", "failed"} /\ json \in ConditionalPrograms) =>
    /\ Len(stack) = 1
    /\ stack[1].locals = <<>>

\* A run that evaluated a Let has returned a value.
RunOfLetDone ==
  /\ json = GetAfterSet
  /\ pc = "done"


SymOfCall(node) ==
  IF node.fn.t = "Get" /\ IsRef(node.fn.val) THEN node.fn.val ELSE JsUndefined

\* C39: callStack and fnSymStack have the same length at every point of an
\* evaluation, and the entry of fnSymStack at i is the symbol of the call
\* at i of callStack.
DebugStacksPaired ==
  /\ Len(callStack) = Len(fnSymStack)
  /\ \A i \in 1..Len(callStack) :
       i <= Len(fnSymStack) => fnSymStack[i] = SymOfCall(callStack[i])

\* The two stacks have the same length at every point.
DebugStacksSameLength == Len(callStack) = Len(fnSymStack)

\* A call has returned normally inside the body of another call whose
\* symbol is a different one.
InnerCallReturned ==
  /\ pc = "running"
  /\ Len(callStack) = 1
  /\ fnSymStack # <<SymOfCall(callStack[1])>>


====
